---------------------------- MODULE Spec2Model ----------------------------
(***************************************************************************)
(* Model of the Proxy's query routing layer: the query classifier, the     *)
(* three routing strategies, the Router that owns the latency cache, the   *)
(* host prober, and the host selection of the POST /sql handler.           *)
(*                                                                         *)
(* Strings the code inspects (queries, strategy names) are sequences of    *)
(* one-character strings, so that strip / split / lower / startswith are   *)
(* modelled by what they do.  Host addresses are only compared, and are    *)
(* plain strings.                                                          *)
(***************************************************************************)
EXTENDS Naturals, Sequences, FiniteSets

(***************************************************************************)
(* Bounds                                                                  *)
(***************************************************************************)
\* longest worker list of the topology
MaxWorkers == 2
\* latencies a successful probe can report are 0 .. MaxLatency (ms)
MaxLatency == 1

(***************************************************************************)
(* Python string primitives                                                *)
(***************************************************************************)
UpperChars == <<"A","B","C","D","E","F","G","H","I","J","K","L","M",
                "N","O","P","Q","R","S","T","U","V","W","X","Y","Z">>
LowerChars == <<"a","b","c","d","e","f","g","h","i","j","k","l","m",
                "n","o","p","q","r","s","t","u","v","w","x","y","z">>

\* str.isspace for one character
IsSpace(c) == c \in {" ", "\t", "\n", "\r"}

\* str.lower for one character
LowerChar(c) ==
    IF \E i \in 1..Len(UpperChars) : UpperChars[i] = c
    THEN LowerChars[CHOOSE i \in 1..Len(UpperChars) : UpperChars[i] = c]
    ELSE c

\* str.lower
lower(s) == [i \in 1..Len(s) |-> LowerChar(s[i])]

RECURSIVE lstrip(_)
lstrip(s) == IF s # <<>> /\ IsSpace(Head(s)) THEN lstrip(Tail(s)) ELSE s

RECURSIVE rstrip(_)
rstrip(s) ==
    IF s # <<>> /\ IsSpace(s[Len(s)]) THEN rstrip(SubSeq(s, 1, Len(s) - 1)) ELSE s

\* str.strip()
strip(s) == rstrip(lstrip(s))

\* the leading run of non-whitespace characters
RECURSIVE TakeWord(_)
TakeWord(s) ==
    IF s = <<>> \/ IsSpace(Head(s)) THEN <<>> ELSE <<Head(s)>> \o TakeWord(Tail(s))

\* s.split(None, 1)[0]: whitespace is skipped, then the first word is taken;
\* an s without any word gives the empty list, and [0] raises IndexError
split_first(s) ==
    IF lstrip(s) = <<>> THEN <<"IndexError">> ELSE TakeWord(lstrip(s))

\* str.startswith(prefix)
startswith(s, p) == Len(s) >= Len(p) /\ SubSeq(s, 1, Len(p)) = p

(***************************************************************************)
(* Keywords and strategy names                                             *)
(***************************************************************************)
K_select   == <<"s","e","l","e","c","t">>
K_show     == <<"s","h","o","w">>
K_describe == <<"d","e","s","c","r","i","b","e">>
K_explain  == <<"e","x","p","l","a","i","n">>

N_direct == <<"d","i","r","e","c","t">>
N_random == <<"r","a","n","d","o","m">>
N_custom == <<"c","u","s","t","o","m">>

(***************************************************************************)
(* proxy/router.py: classify_query                                         *)
(***************************************************************************)
ReadWords == {K_select, K_show, K_describe, K_explain}

\* mutant: the first word is compared as written, without lower()
classify_first_nolower(query) ==
    IF strip(query) # <<>> THEN split_first(strip(query)) ELSE <<>>

classify_first(query) ==
    IF strip(query) # <<>> THEN lower(split_first(strip(query))) ELSE <<>>

\* an IndexError raised by [0] would leave classify_query
classify_query(query) ==
    IF classify_first(query) = <<"IndexError">> THEN "IndexError"
    ELSE IF classify_first(query) \in ReadWords THEN "read" ELSE "write"


(***************************************************************************)
(* Topology and configuration values                                       *)
(***************************************************************************)
\* config.MANAGER_HOST
MANAGER_HOST == "m"

\* the worker addresses the topology is drawn from, in list order; hosts are
\* opaque, so the lists are taken up to renaming
WorkerPool == <<"w1", "w2", "w3", "w4">>

WorkerLists == {SubSeq(WorkerPool, 1, n) : n \in 0..MaxWorkers}

\* values of the PROXY_STRATEGY environment variable: the three registered
\* names and one that names no strategy
N_latency == <<"l","a","t","e","n","c","y">>
DefaultStrategyValues == {N_direct, N_random, N_custom, N_latency}

\* a strategy name as a request carries it: given or absent (None)
Name(v) == [given |-> TRUE, v |-> v]
NoName  == [given |-> FALSE, v |-> <<>>]

N_RANDOM_upper == <<"R","A","N","D","O","M">>
N_bogus        == <<"x">>
StrategyNames ==
    {Name(N_direct), Name(N_random), Name(N_custom),
     Name(N_RANDOM_upper), Name(N_bogus), NoName}

\* queries the requests carry
Q_select  == <<"S","E","L","E","C","T"," ","1">>
Q_show    == <<" ","s","h","o","w"," ","t">>
Q_insert  == <<"i","n","s","e","r","t"," ","t">>
Q_selstar == <<"s","e","l","e","c","t","*"," ","t">>
Queries == {Q_select, Q_show, Q_insert, Q_selstar}

Latencies == 0..MaxLatency

(***************************************************************************)
(* Python dict with insertion order: a sequence of [host, ms] entries      *)
(***************************************************************************)
DictKeys(d) == {d[i].host : i \in 1..Len(d)}

DictGet(d, k) == d[CHOOSE i \in 1..Len(d) : d[i].host = k].ms

\* d[k] = v: an existing key keeps its place
DictSet(d, k, v) ==
    IF k \in DictKeys(d)
    THEN [i \in 1..Len(d) |-> IF d[i].host = k THEN [host |-> k, ms |-> v] ELSE d[i]]
    ELSE Append(d, [host |-> k, ms |-> v])

\* mutant: a later key also replaces the best one on an equal value
RECURSIVE min_scan_last(_, _, _)
min_scan_last(d, i, best) ==
    IF i > Len(d) THEN d[best].host
    ELSE min_scan_last(d, i + 1, IF d[i].ms <= d[best].ms THEN i ELSE best)

min_by_latency_last(d) == IF d = <<>> THEN "ValueError" ELSE min_scan_last(d, 2, 1)

\* min(d, key=d.get): the keys are visited in insertion order and a later key
\* replaces the best one only when its value is strictly smaller
RECURSIVE min_scan(_, _, _)
min_scan(d, i, best) ==
    IF i > Len(d) THEN d[best].host
    ELSE min_scan(d, i + 1, IF d[i].ms < d[best].ms THEN i ELSE best)

min_by_latency(d) == IF d = <<>> THEN "ValueError" ELSE min_scan(d, 2, 1)

\* mutant: the choice is always the first element
random_choice_first(seq) == IF seq = <<>> THEN {"IndexError"} ELSE {seq[1]}

\* random.choice(seq): any element; IndexError on an empty sequence
random_choice(seq) ==
    IF seq = <<>> THEN {"IndexError"} ELSE {seq[i] : i \in 1..Len(seq)}

Errors == {"IndexError", "ValueError", "KeyError"}

(***************************************************************************)
(* proxy/utils/ping.py: ping_host                                          *)
(***************************************************************************)
\* what running `ping -c 1 -W 2 host` can come to
PingRuns ==
    {[kind |-> "raise", rc |-> 0, ms |-> 0],
     [kind |-> "exit", rc |-> 1, ms |-> 0],
     [kind |-> "nomatch", rc |-> 0, ms |-> 0],
     [kind |-> "badfloat", rc |-> 0, ms |-> 0]}
    \cup {[kind |-> "time", rc |-> 0, ms |-> l] : l \in Latencies}

None == [some |-> FALSE, ms |-> 0]
Some(l) == [some |-> TRUE, ms |-> l]

\* "raise": subprocess.run raised; "exit": ping ended with a return code other
\* than 0; "nomatch": no "time=.. ms" in the output; "badfloat": the matched
\* digits and dots are no number, float() raises and the except returns None
ping_host(run) ==
    IF run.kind = "raise" THEN None
    ELSE IF run.rc # 0 THEN None
    ELSE IF run.kind = "nomatch" THEN None
    ELSE IF run.kind = "badfloat" THEN None
    ELSE Some(run.ms)

(***************************************************************************)
(* proxy/strategies: the three strategies.  Each gives the set of values   *)
(* choose_target can return (a host, or the name of the error raised).     *)
(***************************************************************************)
\* mutant: reads are spread over the workers, as the other strategies do
DirectStrategy_split(query_type, manager_host, worker_hosts) ==
    IF query_type = "write" \/ worker_hosts = <<>>
    THEN {manager_host}
    ELSE {worker_hosts[i] : i \in 1..Len(worker_hosts)}

DirectStrategy(query_type, manager_host, worker_hosts) == {manager_host}

\* mutant: the empty worker list is not checked
RandomChoiceStrategy_noguard(query_type, manager_host, worker_hosts) ==
    IF query_type = "write" THEN {manager_host} ELSE random_choice(worker_hosts)

RandomChoiceStrategy(query_type, manager_host, worker_hosts) ==
    IF query_type = "write" \/ worker_hosts = <<>>
    THEN {manager_host}
    ELSE random_choice(worker_hosts)

\* mutant: only the empty worker list returns early, a write goes on to probe
LatencyEarlyReturn_reads_too(query_type, worker_hosts) == worker_hosts = <<>>

\* LatencyBasedStrategy, line 20: the early return to the manager
LatencyEarlyReturn(query_type, worker_hosts) ==
    query_type = "write" \/ worker_hosts = <<>>

\* mutant: the cache is measured on every read
LatencyAlwaysProbe(latencies) == TRUE

\* LatencyBasedStrategy, line 27: the cache is measured when it is empty
LatencyMustProbe(latencies) == latencies = <<>>

\* mutant: an absent probe result is entered too
LatencyRecord_keepNone(latencies, w, latency) == DictSet(latencies, w, latency.ms)

\* LatencyBasedStrategy, lines 31-32: one probe result entered in the dict
LatencyRecord(latencies, w, latency) ==
    IF latency # None THEN DictSet(latencies, w, latency.ms) ELSE latencies

\* LatencyBasedStrategy, lines 36-42: the decision from the latencies in hand
LatencyDecide(manager_host, latencies) ==
    IF latencies = <<>> THEN manager_host ELSE min_by_latency(latencies)

(***************************************************************************)
(* proxy/router.py: Router.get_strategy                                    *)
(***************************************************************************)
Registered == {N_direct, N_random, N_custom}

\* self.strategies[k]
StrategiesIndex(k) == IF k \in Registered THEN k ELSE <<"KeyError">>

\* mutant: an unknown name falls back to direct, whatever the configuration
get_strategy_direct(name, default_strategy) ==
    IF StrategiesIndex(default_strategy) = <<"KeyError">> THEN <<"KeyError">>
    ELSE IF name.given /\ name.v \in Registered THEN name.v
    ELSE N_direct

\* self.strategies.get(name, self.strategies[config.DEFAULT_STRATEGY]): the
\* default argument is evaluated before the lookup
get_strategy(name, default_strategy) ==
    IF StrategiesIndex(default_strategy) = <<"KeyError">> THEN <<"KeyError">>
    ELSE IF name.given /\ name.v \in Registered THEN name.v
    ELSE StrategiesIndex(default_strategy)

(***************************************************************************)
(* proxy/app.py: choose_host                                               *)
(***************************************************************************)
\* (strategy or "direct").lower()
app_strategy(strategy) ==
    lower(IF strategy.given /\ strategy.v # <<>> THEN strategy.v ELSE N_direct)

\* (query or "").strip().lower().startswith("select")
app_is_read(query) == startswith(lower(strip(query)), K_select)

choose_host(strategy, query, manager, workers) ==
    LET all_hosts == IF workers # <<>> THEN <<manager>> \o workers ELSE <<manager>>
        s == app_strategy(strategy)
    IN  IF s = N_direct THEN {manager}
        ELSE IF s = N_random THEN random_choice(all_hosts)
        ELSE IF s = N_custom
             THEN IF app_is_read(query) /\ workers # <<>>
                  THEN random_choice(workers)
                  ELSE {manager}
        ELSE {manager}


(***************************************************************************)
(* State                                                                   *)
(***************************************************************************)
VARIABLES
    worker_hosts,      \* Router.worker_hosts / config.WORKER_HOSTS
    DEFAULT_STRATEGY,  \* config.DEFAULT_STRATEGY
    worker_latencies,  \* Router.state["worker_latencies"]
    req,               \* per client: the call in progress or just returned
                       \* (probes, absent: the probes it issued and those
                       \* that came back absent)
    hist,              \* the latency-strategy reads completed so far, kept
                       \* until HistLen of them are
    cq,                \* the query handed to classify_query and its answer
    ex,                \* the executor call in progress: db.execute_query or
                       \* the POST /sql handler of proxy/app.py
    fo,                \* the request in progress in the fan-out Proxy of
                       \* final-auto2.py
    cfg,               \* the environment and what proxy/config.py made of it
    gk,                \* the request in progress in the Gatekeeper
    fa                 \* the run of final-auto.py: where main is and the
                       \* EC2 calls it has made

vars ==
    <<worker_hosts, DEFAULT_STRATEGY, worker_latencies, req, hist, cq, ex, fo,
      cfg, gk, fa>>

\* the clients that call the Proxy; two are enough for a race on the cache
Clients == {1, 2}

NoStrategy == <<>>

Idle ==
    [pc |-> "idle", api |-> "none", query |-> <<>>, sname |-> NoName,
     qtype |-> "none", strat |-> NoStrategy, lat |-> <<>>, i |-> 0,
     probes |-> 0, absent |-> 0, target |-> "none", err |-> "none"]

\* a call that has returned `out`: a host, or the error it raised
Returned(r, out) ==
    [r EXCEPT !.pc = "done", !.i = 0,
              !.target = IF out \in Errors THEN "none" ELSE out,
              !.err = IF out \in Errors THEN out ELSE "none"]

\* the record the history keeps of a completed latency-strategy read
HistEntry(r) == [probes |-> r.probes, absent |-> r.absent]

\* the history holds two calls: the pair the cache-reuse property is about
HistLen == 2

Remember(h, r) == IF Len(h) < HistLen THEN Append(h, HistEntry(r)) ELSE h

\* a history that records nothing more
HistOff == [k \in 1..HistLen |-> [probes |-> 0, absent |-> 0]]

\* what a call has answered: nothing yet, a returned value (how = "return")
\* or an exception that leaves the call (how = "raise").  status and keys
\* are the HTTP status and the keys of the JSON body of a handler's answer;
\* result, msg, msg_host and msg_err are the parts of execute_query's pair.
NoResp ==
    [how |-> "none", status |-> 0, keys |-> {}, result |-> "none",
     msg |-> "none", msg_host |-> "none", msg_err |-> "none"]

\* no executor call in progress.  conn and cursor are "none" (not bound),
\* "open", "closed" (close() returned) or "failed" (close() raised); log is
\* the sequence of driver calls made so far with their outcomes.
ExIdle ==
    [pc |-> "idle", kind |-> "none", query |-> NoName, sname |-> NoName,
     host |-> "none", conn |-> "none", cursor |-> "none", log |-> <<>>,
     resp |-> NoResp]

\* no request in progress in the fan-out Proxy.  conn and cur are as in
\* ExIdle; log holds the driver calls with the host they went to and the
\* part of the request that made them ("main", "repl" or "finally"); w and
\* rstep are the worker and the statement the replication loop is at,
\* results the list it has built, replicated whether replication_info was
\* assigned that list, lats what choose_custom_worker measured.
FoIdle ==
    [pc |-> "idle", query |-> NoName, sname |-> NoName, is_write |-> FALSE,
     host |-> "none", conn |-> "none", cur |-> "none", log |-> <<>>,
     w |-> 0, rstep |-> 0, results |-> <<>>, replicated |-> FALSE,
     lats |-> <<>>, resp |-> NoResp]

\* an environment in which no variable is set
NoEnv ==
    [MANAGER_HOST |-> NoName, WORKER_HOSTS |-> NoName, DB_USER |-> NoName,
     DB_PASSWORD |-> NoName, DB_NAME |-> NoName, DB_PORT |-> NoName,
     PROXY_STRATEGY |-> NoName, DEBUG |-> NoName]

\* the configuration module not imported yet: env is the environment of the
\* process; the other fields are the module's names once it is imported
\* (pc "loaded") or the exception its import raised (pc "error"), and the
\* answer of the first routing call made with it (pc "routed")
CfgIdle ==
    [pc |-> "idle", env |-> NoEnv, MANAGER_HOST |-> <<>>,
     WORKER_HOSTS |-> <<>>, DB_USER |-> <<>>, DB_PASSWORD |-> <<>>,
     DB_NAME |-> <<>>, DB_PORT |-> 0, DEFAULT_STRATEGY |-> <<>>,
     DEBUG |-> FALSE, err |-> "none", err_var |-> "none", target |-> <<>>]

\* nothing posted to the Proxy
NoPayload == [sent |-> FALSE, query |-> <<>>, strategy |-> NoName]

\* no request in progress in the Gatekeeper.  token, query and strategy
\* are the X-API-TOKEN header and the two fields of the body; steps is the
\* sequence of checks made and posts sent so far, payload the body posted
\* to the Proxy, proxy what came of the post.
GkIdle ==
    [pc |-> "idle", token |-> NoName, query |-> NoName, strategy |-> NoName,
     steps |-> <<>>, payload |-> NoPayload,
     proxy |-> [kind |-> "none", status |-> 0], resp |-> NoResp]

\* final-auto.py not started.  launched is the sequence of instances
\* run_instances has created, terminated the set termination was requested
\* for, failed the step that raised and err the exception; step is the
\* statement of main that runs next, sg what the security-group call gave.
FaIdle ==
    [pc |-> "idle", step |-> 0, no_cleanup |-> FALSE, sg |-> "none",
     launched |-> <<>>, terminated |-> {}, failed |-> "none", err |-> "none"]

\* the state after the configuration is loaded and the Router constructed
InitRouter ==
    /\ worker_hosts \in WorkerLists
    /\ DEFAULT_STRATEGY \in DefaultStrategyValues
    /\ worker_latencies = <<>>
    /\ req = [c \in Clients |-> Idle]
    /\ cq = [query |-> <<>>, result |-> "idle"]
    /\ ex = ExIdle
    /\ fo = FoIdle
    /\ cfg = CfgIdle
    /\ gk = GkIdle
    /\ fa = FaIdle

Init == InitRouter /\ hist = <<>>

Free(c) == req[c].pc = "idle"

(***************************************************************************)
(* Router.choose_target(query, strategy_name), up to the point where the   *)
(* latency strategy starts to probe.  Direct, Random, a latency-strategy   *)
(* write and a latency-strategy read served from the cache return here.    *)
(***************************************************************************)
RouterCall(c, q, s) ==
    /\ Free(c)
    /\ LET qtype == classify_query(q)
           strat == get_strategy(s, DEFAULT_STRATEGY)
           r0 == [req[c] EXCEPT !.api = "router", !.query = q, !.sname = s,
                                !.qtype = qtype]
           r1 == [r0 EXCEPT !.strat = strat]
       IN  IF strat = <<"KeyError">>
           THEN /\ req' = [req EXCEPT ![c] = Returned(r0, "KeyError")]
                /\ UNCHANGED hist
           ELSE IF strat = N_direct
           THEN /\ \E out \in DirectStrategy(qtype, MANAGER_HOST, worker_hosts) :
                      req' = [req EXCEPT ![c] = Returned(r1, out)]
                /\ UNCHANGED hist
           ELSE IF strat = N_random
           THEN /\ \E out \in RandomChoiceStrategy(qtype, MANAGER_HOST, worker_hosts) :
                      req' = [req EXCEPT ![c] = Returned(r1, out)]
                /\ UNCHANGED hist
           ELSE IF LatencyEarlyReturn(qtype, worker_hosts)
           THEN /\ req' = [req EXCEPT ![c] = Returned(r1, MANAGER_HOST)]
                /\ UNCHANGED hist
           ELSE IF LatencyMustProbe(worker_latencies)
           THEN /\ req' = [req EXCEPT ![c] = [r1 EXCEPT !.pc = "probe", !.i = 1]]
                /\ UNCHANGED hist
           ELSE LET r2 == [r1 EXCEPT !.lat = worker_latencies]
                IN  /\ req' = [req EXCEPT ![c] =
                                  Returned(r2, LatencyDecide(MANAGER_HOST, r2.lat))]
                    /\ hist' = Remember(hist, r2)
    /\ UNCHANGED <<worker_hosts, DEFAULT_STRATEGY, worker_latencies, cq,
                 ex, fo, cfg, gk, fa>>

\* LatencyBasedStrategy, lines 29-32: one worker is pinged
LatencyProbe(c, run) ==
    /\ req[c].pc = "probe"
    /\ LET r == req[c]
           w == worker_hosts[r.i]
           lat == LatencyRecord(r.lat, w, ping_host(run))
       IN  req' = [req EXCEPT ![c] =
                     [r EXCEPT !.lat = lat, !.probes = r.probes + 1,
                               !.absent = IF ping_host(run) = None
                                          THEN r.absent + 1 ELSE r.absent,
                               !.i = r.i + 1,
                               !.pc = IF r.i = Len(worker_hosts)
                                      THEN "store" ELSE "probe"]]
    /\ UNCHANGED <<worker_hosts, DEFAULT_STRATEGY, worker_latencies, hist, cq,
                 ex, fo, cfg, gk, fa>>

\* a store that would write into the shared dictionary instead of replacing
\* it: what the whole-pass property excludes
LatencyStore_merge(c) ==
    /\ req[c].pc = "store"
    /\ worker_latencies' = worker_latencies \o req[c].lat
    /\ req' = [req EXCEPT ![c] =
                 Returned(req[c], LatencyDecide(MANAGER_HOST, req[c].lat))]
    /\ hist' = Remember(hist, req[c])
    /\ UNCHANGED <<worker_hosts, DEFAULT_STRATEGY, cq,
                 ex, fo, cfg, gk, fa>>

\* LatencyBasedStrategy, lines 34-42: the measured latencies are stored and
\* the call decides from them
LatencyStore(c) ==
    /\ req[c].pc = "store"
    /\ worker_latencies' = req[c].lat
    /\ req' = [req EXCEPT ![c] =
                 Returned(req[c], LatencyDecide(MANAGER_HOST, req[c].lat))]
    /\ hist' = Remember(hist, req[c])
    /\ UNCHANGED <<worker_hosts, DEFAULT_STRATEGY, cq,
                 ex, fo, cfg, gk, fa>>

\* proxy/app.py: the host selection of the POST /sql handler
AppChooseHost(c, q, s) ==
    /\ Free(c)
    /\ \E out \in choose_host(s, q, MANAGER_HOST, worker_hosts) :
          req' = [req EXCEPT ![c] =
                    Returned([req[c] EXCEPT !.api = "app", !.query = q,
                                            !.sname = s,
                                            !.qtype = classify_query(q)], out)]
    /\ UNCHANGED <<worker_hosts, DEFAULT_STRATEGY, worker_latencies, hist, cq,
                 ex, fo, cfg, gk, fa>>

\* the caller has the value the call returned; the client is free to call again
Return(c) ==
    /\ req[c].pc = "done"
    /\ req' = [req EXCEPT ![c] = Idle]
    /\ UNCHANGED <<worker_hosts, DEFAULT_STRATEGY, worker_latencies, hist, cq,
                 ex, fo, cfg, gk, fa>>

(***************************************************************************)
(* Spec: one client calls the Router and the handler's host selection,     *)
(* one call after the other, with every query and strategy name.           *)
(***************************************************************************)
Next ==
    \/ \E q \in Queries, s \in StrategyNames : RouterCall(1, q, s)
    \/ \E run \in PingRuns : LatencyProbe(1, run)
    \/ LatencyStore(1)
    \/ \E q \in Queries, s \in StrategyNames : AppChooseHost(1, q, s)
    \/ Return(1)

Spec == Init /\ [][Next]_vars

(***************************************************************************)
(* SpecRace: the clients call the Router concurrently with latency-        *)
(* strategy reads; a call is interleaved with the others at each probe     *)
(* and at the store of the cache.                                          *)
(***************************************************************************)
InitRace == InitRouter /\ DEFAULT_STRATEGY = N_direct /\ hist = HistOff

NextRace ==
    \/ \E c \in Clients : RouterCall(c, Q_select, Name(N_custom))
    \/ \E c \in Clients, run \in PingRuns : LatencyProbe(c, run)
    \/ \E c \in Clients : LatencyStore(c)
    \/ \E c \in Clients : Return(c)

SpecRace == InitRace /\ [][NextRace]_vars


(***************************************************************************)
(* SpecClassify: classify_query applied to queries made of leading         *)
(* whitespace, a first word in several letter cases, and a tail.           *)
(***************************************************************************)
UpperChar(c) ==
    IF \E i \in 1..Len(LowerChars) : LowerChars[i] = c
    THEN UpperChars[CHOOSE i \in 1..Len(LowerChars) : LowerChars[i] = c]
    ELSE c

upper(s) == [i \in 1..Len(s) |-> UpperChar(s[i])]

capitalize(s) == [i \in 1..Len(s) |-> IF i = 1 THEN UpperChar(s[i]) ELSE s[i]]

ClassifyLeads == {<<>>, <<" ">>, <<"\t", "\n">>}

ClassifyWords ==
    LET base == ReadWords \cup
                {<<"i","n","s","e","r","t">>, <<"s","e","l","e","c">>,
                 <<"s","h","o","w","s">>, <<"x">>}
    IN  {<<>>} \cup base \cup {upper(w) : w \in base} \cup {capitalize(w) : w \in base}

ClassifyTails ==
    {<<>>, <<" ">>, <<" ", "1">>, <<"*">>, <<"(", "1", ")">>, <<"\t", "x", " ">>}

ClassifyQueries ==
    {l \o w \o t : l \in ClassifyLeads, w \in ClassifyWords, t \in ClassifyTails}

\* a caller takes up a query
ClassifyPick(q) ==
    /\ cq.result # "none"
    /\ cq' = [query |-> q, result |-> "none"]
    /\ UNCHANGED <<worker_hosts, DEFAULT_STRATEGY, worker_latencies, req, hist,
                 ex, fo, cfg, gk, fa>>

\* classify_query(query) returns (or raises)
Classify ==
    /\ cq.result = "none"
    /\ cq' = [cq EXCEPT !.result = classify_query(cq.query)]
    /\ UNCHANGED <<worker_hosts, DEFAULT_STRATEGY, worker_latencies, req, hist,
                 ex, fo, cfg, gk, fa>>

NextClassify ==
    \/ \E q \in ClassifyQueries : ClassifyPick(q)
    \/ Classify

InitClassify == Init /\ worker_hosts = <<>> /\ DEFAULT_STRATEGY = N_direct

SpecClassify == InitClassify /\ [][NextClassify]_vars


(***************************************************************************)
(* The executors: db.execute_query and the POST /sql handler of app.py.    *)
(* Every call into the MySQL driver is one step; it returns ("ok"), raises *)
(* a mysql.connector.Error ("Error") or raises another exception           *)
(* ("Exception").                                                          *)
(***************************************************************************)
Outcomes == {"ok", "Error", "Exception"}

\* the variables no executor step touches
ExFrame ==
    UNCHANGED <<worker_hosts, DEFAULT_STRATEGY, worker_latencies, req, hist,
                cq, fo, cfg, gk, fa>>

Logged(r, op, o) == [r EXCEPT !.log = Append(@, [op |-> op, out |-> o])]

\* an exception that leaves the call; it is named by the driver call that
\* raised it
Raised(op) == [NoResp EXCEPT !.how = "raise", !.msg_err = op]

\* the pair execute_query returns
DbResult(result, msg, host, err) ==
    [NoResp EXCEPT !.how = "return", !.result = result, !.msg = msg,
                   !.msg_host = host, !.msg_err = err]

\* jsonify(body), status
HttpResp(status, keys, result) ==
    [NoResp EXCEPT !.how = "return", !.status = status, !.keys = keys,
                   !.result = result]

\* query.strip().lower().startswith(("select", "show", "describe", "explain"))
db_is_read(query) ==
    \E w \in ReadWords : startswith(lower(strip(query)), w)

\* an executor that commits before it executes the statement
DbNext_commit_first(pc, is_read) ==
    CASE pc = "connect" -> "cursor"
      [] pc = "cursor"  -> IF is_read THEN "execute" ELSE "commit"
      [] pc = "commit"  -> "execute"
      [] pc = "execute" -> IF is_read THEN "fetch" ELSE "finally"
      [] pc = "fetch"   -> "finally"

\* the statement of the try block that follows a driver call that returned
DbNext(pc, is_read) ==
    CASE pc = "connect" -> "cursor"
      [] pc = "cursor"  -> "execute"
      [] pc = "execute" -> IF is_read THEN "fetch" ELSE "commit"
      [] pc = "fetch"   -> "finally"
      [] pc = "commit"  -> "finally"

\* finally: `if cursor: cursor.close()` then `if conn: conn.close()`
DbFinally(r) ==
    IF r.cursor # "none" THEN "close_cursor"
    ELSE IF r.conn # "none" THEN "close_conn"
    ELSE "done"

DbGoto(r, pc) == [r EXCEPT !.pc = IF pc = "finally" THEN DbFinally(r) ELSE pc]

\* a driver call of the try block raised: `except Error` returns the error
\* pair, any other exception leaves through the finally block
DbExcept(r, op, o) ==
    DbGoto([r EXCEPT !.resp = IF o = "Error"
                               THEN DbResult("None", "error", r.host, op)
                               ELSE Raised(op)],
           "finally")

DbCall(host, q) ==
    /\ ex.pc = "idle"
    /\ ex' = [ExIdle EXCEPT !.pc = "connect", !.kind = "db", !.host = host,
                            !.query = Name(q)]
    /\ ExFrame

DbAt(pc) == ex.kind = "db" /\ ex.pc = pc

DbIsRead == db_is_read(ex.query.v)

\* conn = get_connection(host)
DbConnect(o) ==
    /\ DbAt("connect")
    /\ LET r == Logged(ex, "connect", o)
       IN  ex' = IF o = "ok"
                 THEN DbGoto([r EXCEPT !.conn = "open"],
                             DbNext("connect", DbIsRead))
                 ELSE DbExcept(r, "connect", o)
    /\ ExFrame

\* cursor = conn.cursor()
DbCursor(o) ==
    /\ DbAt("cursor")
    /\ LET r == Logged(ex, "cursor", o)
       IN  ex' = IF o = "ok"
                 THEN DbGoto([r EXCEPT !.cursor = "open"],
                             DbNext("cursor", DbIsRead))
                 ELSE DbExcept(r, "cursor", o)
    /\ ExFrame

\* cursor.execute(query)
DbExecute(o) ==
    /\ DbAt("execute")
    /\ LET r == Logged(ex, "execute", o)
       IN  ex' = IF o = "ok"
                 THEN DbGoto(r, DbNext("execute", DbIsRead))
                 ELSE DbExcept(r, "execute", o)
    /\ ExFrame

\* rows = cursor.fetchall(); return rows, "Executed READ on {host}"
DbFetch(o) ==
    /\ DbAt("fetch")
    /\ LET r == Logged(ex, "fetchall", o)
       IN  ex' = IF o = "ok"
                 THEN DbGoto([r EXCEPT !.resp =
                                 DbResult("rows", "read", r.host, "none")],
                             DbNext("fetch", DbIsRead))
                 ELSE DbExcept(r, "fetchall", o)
    /\ ExFrame

\* conn.commit(); return cursor.rowcount, "Executed WRITE on {host}"
DbCommit(o) ==
    /\ DbAt("commit")
    /\ LET r == Logged(ex, "commit", o)
       IN  ex' = IF o = "ok"
                 THEN DbGoto([r EXCEPT !.resp =
                                 DbResult("count", "write", r.host, "none")],
                             DbNext("commit", DbIsRead))
                 ELSE DbExcept(r, "commit", o)
    /\ ExFrame

\* finally: cursor.close(); when it raises, conn.close() is not reached
DbCloseCursor(o) ==
    /\ DbAt("close_cursor")
    /\ LET r == Logged(ex, "cursor.close", o)
       IN  ex' = IF o = "ok"
                 THEN [r EXCEPT !.cursor = "closed",
                                !.pc = IF r.conn # "none" THEN "close_conn"
                                       ELSE "done"]
                 ELSE [r EXCEPT !.cursor = "failed", !.pc = "done",
                                !.resp = Raised("cursor.close")]
    /\ ExFrame

\* finally: conn.close()
DbCloseConn(o) ==
    /\ DbAt("close_conn")
    /\ LET r == Logged(ex, "conn.close", o)
       IN  ex' = IF o = "ok"
                 THEN [r EXCEPT !.conn = "closed", !.pc = "done"]
                 ELSE [r EXCEPT !.conn = "failed", !.pc = "done",
                                !.resp = Raised("conn.close")]
    /\ ExFrame

(***************************************************************************)
(* proxy/app.py: handle_sql                                                *)
(***************************************************************************)
\* the "query" field of the request body: absent, empty or a query
BodyQueries == {NoName, Name(<<>>)} \cup {Name(q) : q \in Queries}

\* a handler that never rejects a body
missing_query_never(query) == FALSE

\* `if not query`
missing_query(query) == ~query.given \/ query.v = <<>>

\* query.strip().lower().startswith("select")
hs_is_select(query) == startswith(lower(strip(query)), K_select)

\* the statement of the try block that follows a driver call that returned
HsNext(pc, is_select) ==
    CASE pc = "connect" -> "cursor"
      [] pc = "cursor"  -> "execute"
      [] pc = "execute" -> IF is_select THEN "fetch" ELSE "commit"
      [] pc = "fetch"   -> "finally"
      [] pc = "commit"  -> "finally"

\* finally: cursor.close() and conn.close(), each in a try of its own; when
\* conn.cursor() raised, `cursor` is not bound and the NameError is swallowed
HsFinally(r) == IF r.cursor # "none" THEN "close_cursor" ELSE "close_conn"

HsGoto(r, pc) == [r EXCEPT !.pc = IF pc = "finally" THEN HsFinally(r) ELSE pc]

\* a driver call of the try block raised: `except mysql.connector.Error`
\* answers 500, any other exception leaves through the finally block
HsExcept(r, op, o) ==
    HsGoto([r EXCEPT !.resp = IF o = "Error"
                               THEN HttpResp(500, {"error", "details"}, "none")
                               ELSE Raised(op)],
           "finally")

\* lines 70-83: the body is read, an absent or empty query is answered 400,
\* otherwise the target host is chosen
HsCall(q, s) ==
    /\ ex.pc = "idle"
    /\ LET r == [ExIdle EXCEPT !.kind = "app", !.query = q, !.sname = s]
       IN  IF missing_query(q)
           THEN ex' = [r EXCEPT !.pc = "done",
                                !.resp = HttpResp(400, {"error"}, "none")]
           ELSE \E h \in choose_host(s, q.v, MANAGER_HOST, worker_hosts) :
                    ex' = [r EXCEPT !.pc = "connect", !.host = h]
    /\ ExFrame

HsAt(pc) == ex.kind = "app" /\ ex.pc = pc

HsIsSelect == hs_is_select(ex.query.v)

\* conn = get_connection(target_host), outside the try/finally
HsConnect(o) ==
    /\ HsAt("connect")
    /\ LET r == Logged(ex, "connect", o)
       IN  ex' = CASE o = "ok" ->
                        HsGoto([r EXCEPT !.conn = "open"],
                               HsNext("connect", HsIsSelect))
                   [] o = "Error" ->
                        [r EXCEPT !.pc = "done",
                                  !.resp = HttpResp(500, {"error", "details"},
                                                    "none")]
                   [] OTHER ->
                        [r EXCEPT !.pc = "done", !.resp = Raised("connect")]
    /\ ExFrame

\* cursor = conn.cursor()
HsCursor(o) ==
    /\ HsAt("cursor")
    /\ LET r == Logged(ex, "cursor", o)
       IN  ex' = IF o = "ok"
                 THEN HsGoto([r EXCEPT !.cursor = "open"],
                             HsNext("cursor", HsIsSelect))
                 ELSE HsExcept(r, "cursor", o)
    /\ ExFrame

\* cursor.execute(query)
HsExecute(o) ==
    /\ HsAt("execute")
    /\ LET r == Logged(ex, "execute", o)
       IN  ex' = IF o = "ok"
                 THEN HsGoto(r, HsNext("execute", HsIsSelect))
                 ELSE HsExcept(r, "execute", o)
    /\ ExFrame

\* rows = cursor.fetchall(); return jsonify({"rows": result}), 200
HsFetch(o) ==
    /\ HsAt("fetch")
    /\ LET r == Logged(ex, "fetchall", o)
       IN  ex' = IF o = "ok"
                 THEN HsGoto([r EXCEPT !.resp = HttpResp(200, {"rows"}, "rows")],
                             HsNext("fetch", HsIsSelect))
                 ELSE HsExcept(r, "fetchall", o)
    /\ ExFrame

\* affected = cursor.rowcount; conn.commit();
\* return jsonify({"affected_rows": affected}), 200
HsCommit(o) ==
    /\ HsAt("commit")
    /\ LET r == Logged(ex, "commit", o)
       IN  ex' = IF o = "ok"
                 THEN HsGoto([r EXCEPT !.resp =
                                 HttpResp(200, {"affected_rows"}, "count")],
                             HsNext("commit", HsIsSelect))
                 ELSE HsExcept(r, "commit", o)
    /\ ExFrame

\* finally: try: cursor.close() except Exception: pass
HsCloseCursor(o) ==
    /\ HsAt("close_cursor")
    /\ ex' = [Logged(ex, "cursor.close", o) EXCEPT
                 !.cursor = IF o = "ok" THEN "closed" ELSE "failed",
                 !.pc = "close_conn"]
    /\ ExFrame

\* finally: try: conn.close() except Exception: pass
HsCloseConn(o) ==
    /\ HsAt("close_conn")
    /\ ex' = [Logged(ex, "conn.close", o) EXCEPT
                 !.conn = IF o = "ok" THEN "closed" ELSE "failed",
                 !.pc = "done"]
    /\ ExFrame

\* the caller has the answer; the next call can start
ExReturn ==
    /\ ex.pc = "done"
    /\ ex' = ExIdle
    /\ ExFrame

InitExec == InitRouter /\ DEFAULT_STRATEGY = N_direct /\ hist = HistOff

NextExec ==
    \/ \E h \in {MANAGER_HOST} \cup {worker_hosts[i] : i \in 1..Len(worker_hosts)},
          q \in Queries : DbCall(h, q)
    \/ \E o \in Outcomes : DbConnect(o)
    \/ \E o \in Outcomes : DbCursor(o)
    \/ \E o \in Outcomes : DbExecute(o)
    \/ \E o \in Outcomes : DbFetch(o)
    \/ \E o \in Outcomes : DbCommit(o)
    \/ \E o \in Outcomes : DbCloseCursor(o)
    \/ \E o \in Outcomes : DbCloseConn(o)
    \/ \E q \in BodyQueries, s \in StrategyNames : HsCall(q, s)
    \/ \E o \in Outcomes : HsConnect(o)
    \/ \E o \in Outcomes : HsCursor(o)
    \/ \E o \in Outcomes : HsExecute(o)
    \/ \E o \in Outcomes : HsFetch(o)
    \/ \E o \in Outcomes : HsCommit(o)
    \/ \E o \in Outcomes : HsCloseCursor(o)
    \/ \E o \in Outcomes : HsCloseConn(o)
    \/ ExReturn

SpecExec == InitExec /\ [][NextExec]_vars

(***************************************************************************)
(* final-auto2.py: the Proxy with write fan-out (route_sql and             *)
(* replicate_write_to_workers).  Every handler there is `except Exception`,*)
(* so a driver call either returns ("ok") or raises ("Exception").         *)
(***************************************************************************)
FoOutcomes == {"ok", "Exception"}

\* the generated script lists two workers
FoWorkerCount == 2

WORKERS == SubSeq(WorkerPool, 1, FoWorkerCount)

MANAGER == MANAGER_HOST

K_insert  == <<"i","n","s","e","r","t">>
K_update  == <<"u","p","d","a","t","e">>
K_delete  == <<"d","e","l","e","t","e">>
K_replace == <<"r","e","p","l","a","c","e">>
K_create  == <<"c","r","e","a","t","e">>
K_alter   == <<"a","l","t","e","r">>
K_drop    == <<"d","r","o","p">>

WriteWords ==
    {K_insert, K_update, K_delete, K_replace, K_create, K_alter, K_drop}

\* q.strip().lower().startswith(("insert", ..., "drop"))
is_write_query(q) == \E w \in WriteWords : startswith(lower(strip(q)), w)

\* bad in lowered
contains(s, sub) ==
    \E i \in 1..(Len(s) - Len(sub) + 1) : SubSeq(s, i, i + Len(sub) - 1) = sub

Forbidden ==
    {<<"d","r","o","p"," ","t","a","b","l","e">>,
     <<"t","r","u","n","c","a","t","e">>,
     <<"s","h","u","t","d","o","w","n">>}

is_forbidden(query) == \E bad \in Forbidden : contains(lower(query), bad)

N_customized == <<"c","u","s","t","o","m","i","z","e","d">>
N_auto       == <<"a","u","t","o">>

Q_drop_table == <<"D","R","O","P"," ","T","A","B","L","E"," ","t">>
Q_update     == <<" ","U","p","d","a","t","e"," ","t">>

FoBodyQueries ==
    {NoName, Name(<<>>), Name(Q_select), Name(Q_show), Name(Q_insert),
     Name(Q_update), Name(Q_drop_table)}

FoStrategyNames == {NoName, Name(N_direct), Name(N_customized), Name(N_random)}

\* float("inf"): the latency recorded for a worker whose measurement raised
Inf == MaxLatency + 1

\* choose_custom_worker: the worker of the first entry after the stable sort
\* by measured latency
choose_custom_worker(workers, lats) ==
    workers[CHOOSE i \in 1..Len(workers) :
                \A j \in 1..Len(workers) :
                    lats[i] < lats[j] \/ (lats[i] = lats[j] /\ i <= j)]

\* what measure_worker_latency can give for each worker: a time, or Inf
\* where it raised
Measurements == [1..Len(WORKERS) -> Latencies \cup {Inf}]

\* lines 274-283: the host the request is sent to
fo_targets(is_write, strategy) ==
    IF is_write THEN {MANAGER}
    ELSE IF lower(strategy) = N_direct THEN {MANAGER}
    ELSE IF lower(strategy) = N_customized
         THEN {choose_custom_worker(WORKERS, lats) : lats \in Measurements}
    ELSE random_choice(WORKERS)

\* lines 274-283 with the measurements choose_custom_worker made, when it
\* was called
fo_choices(is_write, strategy) ==
    IF ~is_write /\ lower(strategy) = N_customized
    THEN {[host |-> choose_custom_worker(WORKERS, lats), lats |-> lats] :
             lats \in Measurements}
    ELSE {[host |-> h, lats |-> <<>>] : h \in fo_targets(is_write, strategy)}

FoFrame ==
    UNCHANGED <<worker_hosts, DEFAULT_STRATEGY, worker_latencies, req, hist,
                cq, ex, cfg, gk, fa>>

FoLogged(r, host, op, o, ph) ==
    [r EXCEPT !.log = Append(@, [host |-> host, op |-> op, out |-> o,
                                 ph |-> ph])]

\* query.strip().lower().startswith("select")
fo_is_select(query) == startswith(lower(strip(query)), K_select)

\* a Proxy that replicates a write as soon as the manager executed it
FoNext_replicate_first(pc, is_select, is_write) ==
    CASE pc = "connect"    -> "cursor"
      [] pc = "cursor"     -> "execute"
      [] pc = "execute"    -> IF is_select THEN "fetch"
                              ELSE IF is_write THEN "replicate" ELSE "commit"
      [] pc = "fetch"      -> "close_cur"
      [] pc = "commit"     -> "close_cur"
      [] pc = "close_cur"  -> "close_conn"
      [] pc = "close_conn" -> "respond"
      [] pc = "replicate"  -> "respond"

\* the statement of route_sql's try block that follows one that returned
FoNext(pc, is_select, is_write) ==
    CASE pc = "connect"    -> "cursor"
      [] pc = "cursor"     -> "execute"
      [] pc = "execute"    -> IF is_select THEN "fetch" ELSE "commit"
      [] pc = "fetch"      -> "close_cur"
      [] pc = "commit"     -> "close_cur"
      [] pc = "close_cur"  -> "close_conn"
      [] pc = "close_conn" -> IF ~is_select /\ is_write THEN "replicate"
                              ELSE "respond"
      [] pc = "replicate"  -> "respond"

\* finally: try: cur.close(); conn.close() except Exception: pass.  When
\* `cur` is not bound the NameError ends the block at once.
FoFinally(r) == IF r.cur # "none" THEN "fin_cur" ELSE "done"

\* the statements of the replication loop body, in order
ReplicaOps ==
    <<"connect", "cursor", "execute", "commit", "cur.close", "conn.close">>

\* a loop that gives up at the first worker that fails
FoNextWorker_stop(w, failed) == IF failed THEN Len(WORKERS) + 1 ELSE w + 1

\* `for cfg in WORKERS`: the except clause is inside the loop body, so the
\* loop goes on to the next worker after a failure as after a success
FoNextWorker(w, failed) == w + 1

\* return jsonify(rows=rows) / return jsonify(status="OK", replication=...)
FoRespond(r) ==
    LET r2 == [r EXCEPT !.resp =
                  IF fo_is_select(r.query.v)
                  THEN HttpResp(200, {"rows"}, "rows")
                  ELSE HttpResp(200, {"status", "replication"}, "OK")]
    IN  [r2 EXCEPT !.pc = FoFinally(r2)]

FoGoto(r, pc) ==
    CASE pc = "respond" -> FoRespond(r)
      [] pc = "replicate" ->
            IF Len(WORKERS) = 0
            THEN FoRespond([r EXCEPT !.replicated = TRUE])
            ELSE [r EXCEPT !.pc = "replicate", !.w = 1, !.rstep = 1,
                           !.replicated = TRUE]
      [] OTHER -> [r EXCEPT !.pc = pc]

\* except Exception as e: return jsonify(error=str(e)), 500
FoExcept(r) ==
    LET r2 == [r EXCEPT !.resp = HttpResp(500, {"error"}, "none")]
    IN  [r2 EXCEPT !.pc = FoFinally(r2)]

\* a statement of the try block: it returned (r_ok is the state it leaves)
\* or it raised
FoTry(r, o, r_ok) ==
    IF o = "ok"
    THEN FoGoto(r_ok, FoNext(r.pc, fo_is_select(r.query.v), r.is_write))
    ELSE FoExcept(r)

\* lines 259-283: the body is read, checked, and the target chosen
FoCall(q, s) ==
    /\ fo.pc = "idle"
    /\ LET query == IF q.given THEN q.v ELSE <<>>
           strategy == IF s.given THEN s.v ELSE N_auto
           r == [FoIdle EXCEPT !.query = q, !.sname = s]
       IN  IF query = <<>>
           THEN fo' = [r EXCEPT !.pc = "done",
                                !.resp = HttpResp(400, {"error"}, "none")]
           ELSE IF is_forbidden(query)
           THEN fo' = [r EXCEPT !.pc = "done",
                                !.resp = HttpResp(403, {"error"}, "none")]
           ELSE \E t \in fo_choices(is_write_query(query), strategy) :
                    fo' = [r EXCEPT !.pc = "connect", !.host = t.host,
                                    !.lats = t.lats,
                                    !.is_write = is_write_query(query)]
    /\ FoFrame

\* conn = mysql.connector.connect(**cfg)
FoConnect(o) ==
    /\ fo.pc = "connect"
    /\ LET r == FoLogged(fo, fo.host, "connect", o, "main")
       IN  fo' = FoTry(r, o, [r EXCEPT !.conn = "open"])
    /\ FoFrame

\* cur = conn.cursor()
FoCursor(o) ==
    /\ fo.pc = "cursor"
    /\ LET r == FoLogged(fo, fo.host, "cursor", o, "main")
       IN  fo' = FoTry(r, o, [r EXCEPT !.cur = "open"])
    /\ FoFrame

\* cur.execute(query)
FoExecute(o) ==
    /\ fo.pc = "execute"
    /\ LET r == FoLogged(fo, fo.host, "execute", o, "main")
       IN  fo' = FoTry(r, o, r)
    /\ FoFrame

\* rows = cur.fetchall()
FoFetch(o) ==
    /\ fo.pc = "fetch"
    /\ LET r == FoLogged(fo, fo.host, "fetchall", o, "main")
       IN  fo' = FoTry(r, o, r)
    /\ FoFrame

\* conn.commit()
FoCommit(o) ==
    /\ fo.pc = "commit"
    /\ LET r == FoLogged(fo, fo.host, "commit", o, "main")
       IN  fo' = FoTry(r, o, r)
    /\ FoFrame

\* cur.close(), inside the try block
FoCloseCur(o) ==
    /\ fo.pc = "close_cur"
    /\ LET r == FoLogged(fo, fo.host, "cur.close", o, "main")
       IN  fo' = FoTry([r EXCEPT !.cur = "failed"], o,
                       [r EXCEPT !.cur = "closed"])
    /\ FoFrame

\* conn.close(), inside the try block; a write then goes on to replication
FoCloseConn(o) ==
    /\ fo.pc = "close_conn"
    /\ LET r == FoLogged(fo, fo.host, "conn.close", o, "main")
       IN  fo' = FoTry([r EXCEPT !.conn = "failed"], o,
                       [r EXCEPT !.conn = "closed"])
    /\ FoFrame

\* replicate_write_to_workers: one statement of the loop body for worker w.
\* The sixth statement returning appends OK, any statement raising appends
\* ERROR; either way the loop moves to the next worker.
FoReplicate(o) ==
    /\ fo.pc = "replicate"
    /\ LET host == WORKERS[fo.w]
           r == FoLogged(fo, host, ReplicaOps[fo.rstep], o, "repl")
           r_end == [r EXCEPT !.results =
                        Append(@, [host |-> host,
                                   status |-> IF o = "ok" THEN "OK"
                                              ELSE "ERROR"])]
           w_next == FoNextWorker(fo.w, o # "ok")
       IN  fo' = IF o = "ok" /\ fo.rstep < Len(ReplicaOps)
                 THEN [r EXCEPT !.rstep = @ + 1]
                 ELSE IF w_next > Len(WORKERS)
                 THEN FoGoto([r_end EXCEPT !.w = 0, !.rstep = 0],
                             FoNext("replicate", FALSE, TRUE))
                 ELSE [r_end EXCEPT !.w = w_next, !.rstep = 1]
    /\ FoFrame

\* finally: cur.close(); when it raises conn.close() is skipped
FoFinallyCur(o) ==
    /\ fo.pc = "fin_cur"
    /\ LET r == FoLogged(fo, fo.host, "cur.close", o, "finally")
       IN  fo' = IF o = "ok"
                 THEN [r EXCEPT !.cur = "closed", !.pc = "fin_conn"]
                 ELSE [r EXCEPT !.cur = IF @ = "open" THEN "failed" ELSE @,
                                !.pc = "done"]
    /\ FoFrame

\* finally: conn.close()
FoFinallyConn(o) ==
    /\ fo.pc = "fin_conn"
    /\ LET r == FoLogged(fo, fo.host, "conn.close", o, "finally")
       IN  fo' = [r EXCEPT !.conn = IF o = "ok" THEN "closed"
                                    ELSE IF @ = "open" THEN "failed" ELSE @,
                           !.pc = "done"]
    /\ FoFrame

\* the answer is sent; the next request can start
FoReturn ==
    /\ fo.pc = "done"
    /\ fo' = FoIdle
    /\ FoFrame

InitFanout ==
    /\ InitRouter /\ worker_hosts = <<>> /\ DEFAULT_STRATEGY = N_direct
    /\ hist = HistOff

NextFanout ==
    \/ \E q \in FoBodyQueries, s \in FoStrategyNames : FoCall(q, s)
    \/ \E o \in FoOutcomes : FoConnect(o)
    \/ \E o \in FoOutcomes : FoCursor(o)
    \/ \E o \in FoOutcomes : FoExecute(o)
    \/ \E o \in FoOutcomes : FoFetch(o)
    \/ \E o \in FoOutcomes : FoCommit(o)
    \/ \E o \in FoOutcomes : FoCloseCur(o)
    \/ \E o \in FoOutcomes : FoCloseConn(o)
    \/ \E o \in FoOutcomes : FoReplicate(o)
    \/ \E o \in FoOutcomes : FoFinallyCur(o)
    \/ \E o \in FoOutcomes : FoFinallyConn(o)
    \/ FoReturn

SpecFanout == InitFanout /\ [][NextFanout]_vars

(***************************************************************************)
(* proxy/config.py: the module body, run once at import                    *)
(***************************************************************************)
\* os.getenv(name, default)
getenv(v, default) == IF v.given THEN v.v ELSE default

\* _must_get: `if not value: raise RuntimeError`
must_get_raises(v) == ~v.given \/ v.v = <<>>

RECURSIVE split_from(_, _, _)
\* str.split(sep): cur is the field being read
split_from(s, sep, cur) ==
    IF s = <<>> THEN <<cur>>
    ELSE IF Head(s) = sep THEN <<cur>> \o split_from(Tail(s), sep, <<>>)
    ELSE split_from(Tail(s), sep, Append(cur, Head(s)))

split(s, sep) == split_from(s, sep, <<>>)

Digits == <<"0","1","2","3","4","5","6","7","8","9">>

DigitValue(c) == (CHOOSE i \in 1..10 : Digits[i] = c) - 1

\* int(s) raises ValueError
int_raises(s) ==
    s = <<>> \/ \E i \in 1..Len(s) : \A d \in 1..10 : Digits[d] # s[i]

RECURSIVE int_from(_, _)
int_from(s, acc) ==
    IF s = <<>> THEN acc ELSE int_from(Tail(s), 10 * acc + DigitValue(Head(s)))

\* int(s) for a string of digits
int(s) == int_from(s, 0)

D_sakila == <<"s","a","k","i","l","a">>
D_3306   == <<"3","3","0","6">>
D_false  == <<"f","a","l","s","e">>
D_true   == <<"t","r","u","e">>

\* the environments the Proxy is started in
Envs ==
    [MANAGER_HOST   : {NoName, Name(<<>>), Name(<<"m">>)},
     WORKER_HOSTS   : {NoName, Name(<<>>), Name(<<"a">>), Name(<<"a",",","b">>),
                       Name(<<"a",",">>)},
     DB_USER        : {NoName, Name(<<"u">>)},
     DB_PASSWORD    : {Name(<<>>), Name(<<"p">>)},
     DB_NAME        : {NoName},
     DB_PORT        : {NoName, Name(<<"3","3">>), Name(<<"x">>)},
     PROXY_STRATEGY : {NoName, Name(N_random), Name(N_custom)},
     DEBUG          : {NoName, Name(<<"T","r","u","e">>)}]

CfgFrame ==
    UNCHANGED <<worker_hosts, DEFAULT_STRATEGY, worker_latencies, req, hist,
                cq, ex, fo, gk, fa>>

\* the import stops at the first statement that raises
CfgError(err, var) == [cfg EXCEPT !.pc = "error", !.err = err, !.err_var = var]

\* lines 12-25, top to bottom
ImportConfig ==
    /\ cfg.pc = "idle"
    /\ LET e == cfg.env
       IN  cfg' =
             IF must_get_raises(e.MANAGER_HOST)
             THEN CfgError("RuntimeError", "MANAGER_HOST")
             ELSE IF must_get_raises(e.WORKER_HOSTS)
             THEN CfgError("RuntimeError", "WORKER_HOSTS")
             ELSE IF must_get_raises(e.DB_USER)
             THEN CfgError("RuntimeError", "DB_USER")
             ELSE IF must_get_raises(e.DB_PASSWORD)
             THEN CfgError("RuntimeError", "DB_PASSWORD")
             ELSE IF int_raises(getenv(e.DB_PORT, D_3306))
             THEN CfgError("ValueError", "DB_PORT")
             ELSE [cfg EXCEPT
                     !.pc = "loaded",
                     !.MANAGER_HOST = e.MANAGER_HOST.v,
                     !.WORKER_HOSTS = split(e.WORKER_HOSTS.v, ","),
                     !.DB_USER = e.DB_USER.v,
                     !.DB_PASSWORD = e.DB_PASSWORD.v,
                     !.DB_NAME = getenv(e.DB_NAME, D_sakila),
                     !.DB_PORT = int(getenv(e.DB_PORT, D_3306)),
                     !.DEFAULT_STRATEGY = getenv(e.PROXY_STRATEGY, N_direct),
                     !.DEBUG = (lower(getenv(e.DEBUG, D_false)) = D_true)]
    /\ CfgFrame

RECURSIVE LatencyPass(_, _, _, _)
\* LatencyBasedStrategy, lines 28-32: the probing loop from worker i on
LatencyPass(workers, runs, i, latencies) ==
    IF i > Len(workers) THEN latencies
    ELSE LatencyPass(workers, runs, i + 1,
                     LatencyRecord(latencies, workers[i], ping_host(runs[i])))

\* what Router.choose_target can return on a Router just constructed from the
\* loaded configuration (empty latency cache)
CfgTargets(q, s) ==
    LET m == cfg.MANAGER_HOST
        ws == cfg.WORKER_HOSTS
        qt == classify_query(q)
        strat == get_strategy(s, cfg.DEFAULT_STRATEGY)
    IN  IF strat = N_direct THEN DirectStrategy(qt, m, ws)
        ELSE IF strat = N_random THEN RandomChoiceStrategy(qt, m, ws)
        ELSE IF LatencyEarlyReturn(qt, ws) THEN {m}
        ELSE {LatencyDecide(m, LatencyPass(ws, runs, 1, <<>>)) :
                 runs \in [1..Len(ws) -> PingRuns]}

\* the first routing call served with the loaded configuration
CfgChooseTarget(q, s) ==
    /\ cfg.pc = "loaded"
    /\ \E t \in CfgTargets(q, s) :
          cfg' = [cfg EXCEPT !.pc = "routed", !.target = t]
    /\ CfgFrame

InitConfig ==
    /\ worker_hosts = <<>>
    /\ DEFAULT_STRATEGY = N_direct
    /\ worker_latencies = <<>>
    /\ req = [c \in Clients |-> Idle]
    /\ hist = HistOff
    /\ cq = [query |-> <<>>, result |-> "idle"]
    /\ ex = ExIdle
    /\ fo = FoIdle
    /\ gk = GkIdle
    /\ fa = FaIdle
    /\ cfg \in {[CfgIdle EXCEPT !.env = e] : e \in Envs}

NextConfig ==
    \/ ImportConfig
    \/ \E q \in Queries, s \in StrategyNames : CfgChooseTarget(q, s)

SpecConfig == InitConfig /\ [][NextConfig]_vars

(***************************************************************************)
(* gatekeeper: auth.py, sql_validation.py and the POST /sql handler        *)
(***************************************************************************)
\* config.API_TOKEN: _must_get leaves it non-empty
API_TOKEN == <<"s","3">>

\* is_authorized that lets every request in
is_authorized_always(token) == TRUE

\* auth.py: the X-API-TOKEN header is present, non-empty and the token
is_authorized(token) == token.given /\ token.v # <<>> /\ token.v = API_TOKEN

DANGEROUS_KEYWORDS ==
    <<<<"d","r","o","p"," ">>, <<"t","r","u","n","c","a","t","e"," ">>, <<"a","l","t","e","r"," ">>, <<"s","h","u","t","d","o","w","n">>, <<"g","r","a","n","t"," ">>, <<"r","e","v","o","k","e"," ">>>>

K_where_spaced == <<" ","w","h","e","r","e"," ">>

\* validate_sql: (is_valid, reason)
validate_sql(query) ==
    LET q == strip(query)
        q_lower == lower(q)
        bad == {i \in 1..Len(DANGEROUS_KEYWORDS) :
                   contains(q_lower, DANGEROUS_KEYWORDS[i])}
    IN  IF q = <<>> THEN [ok |-> FALSE, reason |-> "empty"]
        ELSE IF bad # {} THEN [ok |-> FALSE, reason |-> "forbidden"]
        ELSE IF /\ startswith(q_lower, K_delete) \/ startswith(q_lower, K_update)
                /\ ~contains(q_lower, K_where_spaced)
             THEN [ok |-> FALSE, reason |-> "nowhere"]
        ELSE IF Len(q) > 5000 THEN [ok |-> FALSE, reason |-> "toolong"]
        ELSE [ok |-> TRUE, reason |-> "none"]

\* the headers and bodies the clients send
GkTokens == {NoName, Name(<<>>), Name(API_TOKEN), Name(<<"S","3">>)}

Q_drop_tab     == <<"D","R","O","P","\t","T","A","B","L","E"," ","t">>
Q_update_all   == <<"u","p","d","a","t","e"," ","t"," ","s","e","t"," ","a","=","1">>
Q_update_where == <<"U","p","d","a","t","e"," ","t"," ","s","e","t"," ","a","=","1"," ","w","h","e","r","e"," ","b","=","2">>
Q_update_lit   == <<"u","p","d","a","t","e"," ","t"," ","s","e","t"," ","a","=","'"," ","w","h","e","r","e"," ","'">>
Q_delete_all   == <<" ","d","e","l","e","t","e"," ","f","r","o","m"," ","t">>

GkBodyQueries ==
    {NoName, Name(<<>>), Name(<<" ">>), Name(Q_select), Name(Q_insert),
     Name(Q_drop_table), Name(Q_drop_tab), Name(Q_update_all),
     Name(Q_update_where), Name(Q_update_lit), Name(Q_delete_all)}

GkStrategies == {NoName, Name(<<>>), Name(N_custom)}

\* what requests.post(PROXY_URL, json=payload, timeout=10) comes to: a
\* response with a JSON body or another body, or a RequestException
ProxyOutcomes ==
    {[kind |-> k, status |-> st] : k \in {"json", "text"},
                                   st \in {200, 400, 403, 500}}
    \cup {[kind |-> "ConnectionError", status |-> 0],
          [kind |-> "Timeout", status |-> 0]}

GkFrame ==
    UNCHANGED <<worker_hosts, DEFAULT_STRATEGY, worker_latencies, req, hist,
                cq, ex, fo, cfg, fa>>

\* a check of the handler was made
GkStep(r, name) == [r EXCEPT !.steps = Append(@, name)]

\* the handler returns jsonify(...), status
GkAnswer(r, status, keys) ==
    [r EXCEPT !.pc = "done", !.resp = HttpResp(status, keys, "none")]

\* a request arrives
GkCall(token, q, s) ==
    /\ gk.pc = "idle"
    /\ gk' = [GkIdle EXCEPT !.pc = "auth", !.token = token, !.query = q,
                            !.strategy = s]
    /\ GkFrame

\* lines 43-45
GkAuth ==
    /\ gk.pc = "auth"
    /\ LET r == GkStep(gk, "auth")
       IN  gk' = IF ~is_authorized(gk.token)
                 THEN GkAnswer(r, 401, {"error"})
                 ELSE [r EXCEPT !.pc = "input"]
    /\ GkFrame

\* lines 48-56
GkInput ==
    /\ gk.pc = "input"
    /\ LET r == GkStep(gk, "query")
       IN  gk' = IF missing_query(gk.query)
                 THEN GkAnswer(r, 400, {"error"})
                 ELSE [r EXCEPT !.pc = "validate"]
    /\ GkFrame

\* lines 59-62
GkValidate ==
    /\ gk.pc = "validate"
    /\ LET r == GkStep(gk, "validate")
       IN  gk' = IF ~validate_sql(gk.query.v).ok
                 THEN GkAnswer(r, 400, {"error", "reason"})
                 ELSE [r EXCEPT !.pc = "forward"]
    /\ GkFrame

\* a payload that always carries a strategy field
gk_payload_always(query, strategy) ==
    [sent |-> TRUE, query |-> query, strategy |-> Name(strategy.v)]

\* lines 66-68: payload = {"query": query}; if strategy: payload["strategy"]
gk_payload(query, strategy) ==
    [sent |-> TRUE, query |-> query,
     strategy |-> IF strategy.given /\ strategy.v # <<>> THEN strategy
                  ELSE NoName]

\* line 71: the request is posted to the Proxy
GkForward ==
    /\ gk.pc = "forward"
    /\ gk' = [GkStep(gk, "post") EXCEPT
                 !.pc = "wait",
                 !.payload = gk_payload(gk.query.v, gk.strategy)]
    /\ GkFrame

\* a Gatekeeper that answers 200 whatever the Proxy answered
gk_status_ok(proxy) == 200

\* the status returned for a Proxy response: resp.status_code
gk_status(proxy) == proxy.status

\* lines 72-89: the post returns a response, passed on with its status, or
\* raises a RequestException, answered 502
GkProxy(out) ==
    /\ gk.pc = "wait"
    /\ LET r == [gk EXCEPT !.proxy = out]
       IN  gk' = IF out.kind \in {"json", "text"}
                 THEN GkAnswer(r, gk_status(out),
                               {"via", "proxy_status", "proxy_response"})
                 ELSE GkAnswer(r, 502, {"error", "details"})
    /\ GkFrame

\* the answer is sent; the next request can start
GkReturn ==
    /\ gk.pc = "done"
    /\ gk' = GkIdle
    /\ GkFrame

InitGatekeeper ==
    /\ InitRouter /\ worker_hosts = <<>> /\ DEFAULT_STRATEGY = N_direct
    /\ hist = HistOff

NextGatekeeper ==
    \/ \E t \in GkTokens, q \in GkBodyQueries, s \in GkStrategies :
          GkCall(t, q, s)
    \/ GkAuth
    \/ GkInput
    \/ GkValidate
    \/ GkForward
    \/ \E out \in ProxyOutcomes : GkProxy(out)
    \/ GkReturn

SpecGatekeeper == InitGatekeeper /\ [][NextGatekeeper]_vars

(***************************************************************************)
(* final-auto.py: main and the __main__ block, with the functions of       *)
(* aws/ec2_utils.py it calls.  A step is one call of main; an exception    *)
(* that leaves main is caught and printed by the __main__ block.           *)
(***************************************************************************)
\* the calls of main, in program order: the kind of call and the instance
\* it is about
MainSteps ==
    << [op |-> "port",       id |-> "none"],
       [op |-> "create",     id |-> "manager"],
       [op |-> "wait",       id |-> "manager"],
       [op |-> "private_ip", id |-> "manager"],
       [op |-> "create",     id |-> "worker1"],
       [op |-> "create",     id |-> "worker2"],
       [op |-> "wait",       id |-> "workers"],
       [op |-> "private_ip", id |-> "worker1"],
       [op |-> "private_ip", id |-> "worker2"],
       [op |-> "create",     id |-> "proxy"],
       [op |-> "wait",       id |-> "proxy"],
       [op |-> "private_ip", id |-> "proxy"],
       [op |-> "create",     id |-> "gatekeeper"],
       [op |-> "wait",       id |-> "gatekeeper"],
       [op |-> "public_ip",  id |-> "gatekeeper"],
       [op |-> "health",     id |-> "gatekeeper"],
       [op |-> "benchmarks", id |-> "none"],
       [op |-> "cleanup",    id |-> "none"] >>

\* the names the module aws/ec2_utils.py defines
ec2_utils_names ==
    {"get_ec2_client", "create_instance", "wait_for_instances",
     "get_instance_description", "get_private_ip", "get_public_ip",
     "wait_for_ssh"}

FaFrame ==
    UNCHANGED <<worker_hosts, DEFAULT_STRATEGY, worker_latencies, req, hist,
                cq, ex, fo, cfg, gk>>

FaAt(op) == fa.pc = "main" /\ MainSteps[fa.step].op = op

\* the call returned: main goes on to its next statement
FaGoOn(r) == [r EXCEPT !.step = @ + 1]

\* the call raised: the exception leaves main, and the except clauses of
\* the __main__ block (lines 281-284) print it
FaRaise(r, err) ==
    [r EXCEPT !.pc = "done", !.failed = MainSteps[r.step].op, !.err = err]

\* python final-auto.py [--no-cleanup]
FaStart(no_cleanup) ==
    /\ fa.pc = "idle"
    /\ fa' = [FaIdle EXCEPT !.pc = "main", !.step = 1,
                            !.no_cleanup = no_cleanup]
    /\ FaFrame

\* ensure_mysql_port_open: a ClientError is caught and printed
FaEnsurePort(o) ==
    /\ FaAt("port")
    /\ fa' = FaGoOn([fa EXCEPT !.sg = o])
    /\ FaFrame

\* ec2_utils.create_instance: run_instances creates the instance, or
\* raises ClientError, which is raised again as RuntimeError
FaCreate(o) ==
    /\ FaAt("create")
    /\ fa' = IF o = "ok"
             THEN FaGoOn([fa EXCEPT !.launched =
                              Append(@, MainSteps[fa.step].id)])
             ELSE FaRaise(fa, "RuntimeError")
    /\ FaFrame

\* ec2_utils.wait_for_instances: WaiterError is raised again as RuntimeError
FaWait(o) ==
    /\ FaAt("wait")
    /\ fa' = IF o = "ok" THEN FaGoOn(fa) ELSE FaRaise(fa, "RuntimeError")
    /\ FaFrame

\* ec2_utils.get_private_ip: desc["PrivateIpAddress"]
FaPrivateIp(o) ==
    /\ FaAt("private_ip")
    /\ fa' = IF o = "ip" THEN FaGoOn(fa)
             ELSE FaRaise(fa, IF o = "absent" THEN "KeyError" ELSE o)
    /\ FaFrame

\* ec2_utils.get_public_ip: desc.get("PublicIpAddress"), and the check of
\* lines 233-234
FaPublicIp(o) ==
    /\ FaAt("public_ip")
    /\ fa' = IF o = "ip" THEN FaGoOn(fa)
             ELSE FaRaise(fa, IF o = "absent" THEN "RuntimeError" ELSE o)
    /\ FaFrame

\* wait_for_gatekeeper_http: 200 in time, or RuntimeError at the timeout
FaHealth(o) ==
    /\ FaAt("health")
    /\ fa' = IF o = "ok" THEN FaGoOn(fa) ELSE FaRaise(fa, "RuntimeError")
    /\ FaFrame

\* run_benchmarks: subprocess.run(..., check=False) raises for no exit code
FaBenchmarks ==
    /\ FaAt("benchmarks")
    /\ fa' = FaGoOn(fa)
    /\ FaFrame

\* ec2_utils.terminate_instances(all_ids): the attribute is looked up in
\* the module before anything is called
FaTerminate(r, ids) ==
    IF "terminate_instances" \in ec2_utils_names
    THEN [r EXCEPT !.pc = "done", !.terminated = @ \cup ids]
    ELSE FaRaise(r, "AttributeError")

\* lines 267-275
FaCleanup ==
    /\ FaAt("cleanup")
    /\ LET all_ids == {fa.launched[i] : i \in 1..Len(fa.launched)}
       IN  fa' = IF fa.no_cleanup THEN [fa EXCEPT !.pc = "done"]
                 ELSE FaTerminate(fa, all_ids)
    /\ FaFrame

\* the process has exited; the script can be run again
FaExit ==
    /\ fa.pc = "done"
    /\ fa' = FaIdle
    /\ FaFrame

InitFinalAuto ==
    InitRouter /\ worker_hosts = <<>> /\ DEFAULT_STRATEGY = N_direct
               /\ hist = HistOff

NextFinalAuto ==
    \/ \E nc \in BOOLEAN : FaStart(nc)
    \/ \E o \in {"ok", "Duplicate", "ClientError"} : FaEnsurePort(o)
    \/ \E o \in {"ok", "ClientError"} : FaCreate(o)
    \/ \E o \in {"ok", "WaiterError"} : FaWait(o)
    \/ \E o \in {"ip", "absent", "ClientError"} : FaPrivateIp(o)
    \/ \E o \in {"ip", "absent", "ClientError"} : FaPublicIp(o)
    \/ \E o \in {"ok", "timeout"} : FaHealth(o)
    \/ FaBenchmarks
    \/ FaCleanup
    \/ FaExit

SpecFinalAuto == InitFinalAuto /\ [][NextFinalAuto]_vars

(***************************************************************************)
(* Properties                                                              *)
(***************************************************************************)
Hosts(seq) == {seq[i] : i \in 1..Len(seq)}

\* the place of host w in the worker list
WorkerIndex(w) == CHOOSE i \in 1..Len(worker_hosts) : worker_hosts[i] = w

\* a call of client c has returned
Done(c) == req[c].pc = "done"

\* a call that went through Router.choose_target to the named strategy
RouterDone(c, strat) == Done(c) /\ req[c].api = "router" /\ req[c].strat = strat

\* the strategy name is none of direct, random, custom
Unregistered(s) == ~s.given \/ s.v \notin Registered

\* C1: a write query is routed to the manager under every strategy name, by
\* the Random and Latency-Based strategies and by the host selection of the
\* POST /sql handler, for every worker list.  (A write is taken here as a
\* query that classify_query calls a write and that the handler's own test
\* does not take for a read.)
C1_WriteGoesToManager ==
    \A c \in Clients :
        (Done(c) /\ req[c].qtype = "write" /\ ~app_is_read(req[c].query)
            /\ req[c].err = "none")
        => req[c].target = MANAGER_HOST

\* C2: a latency-strategy read with workers and at least one successful probe
\* returns a worker of lowest recorded latency, and among the workers of
\* lowest latency the one that comes first in the worker list.
C2_LowestLatencyFirstInList ==
    \A c \in Clients :
        (RouterDone(c, N_custom) /\ req[c].qtype = "read"
            /\ worker_hosts # <<>> /\ req[c].lat # <<>>)
        => LET lat == req[c].lat
               t == req[c].target
           IN  /\ t \in DictKeys(lat)
               /\ t \in Hosts(worker_hosts)
               /\ \A j \in 1..Len(lat) :
                     /\ DictGet(lat, t) <= lat[j].ms
                     /\ lat[j].ms = DictGet(lat, t)
                           => WorkerIndex(t) <= WorkerIndex(lat[j].host)

C2_Witness ==
    /\ RouterDone(1, N_custom)
    /\ req[1].probes = 2
    /\ Len(req[1].lat) = 2
    /\ req[1].lat[1].ms = req[1].lat[2].ms
    /\ req[1].target = "w1"

\* C3: a latency-strategy read returns the manager when the worker list is
\* empty or every probe came back absent, and in the all-absent case the
\* cache it stores holds no entry.
C3_FallbackToManager ==
    \A c \in Clients :
        (RouterDone(c, N_custom) /\ req[c].qtype = "read")
        => /\ worker_hosts = <<>>
                => req[c].target = MANAGER_HOST /\ req[c].probes = 0
           /\ (req[c].probes > 0 /\ req[c].absent = req[c].probes)
                => /\ req[c].target = MANAGER_HOST
                   /\ req[c].err = "none"
                   /\ worker_latencies = <<>>

C3_Witness ==
    /\ RouterDone(1, N_custom)
    /\ req[1].probes = 2
    /\ req[1].absent = 2
    /\ req[1].target = MANAGER_HOST

\* C4 as claimed: the first two latency-strategy reads on a Router with at
\* least one worker make exactly one probing pass between them, whatever the
\* probes return: the second issues no probe.
C4_ExactlyOnePassWhateverTheProbes ==
    Len(hist) >= 2 =>
        /\ hist[1].probes + hist[2].probes = Len(worker_hosts)
        /\ hist[2].probes = 0

\* C4 as amended: the first read makes one probing pass; when at least one of
\* its probes succeeded the second read issues no probe (one pass in total),
\* and when all of them came back absent the second read makes a pass of its
\* own.
C4_OnePassWhenAProbeSucceeded ==
    /\ Len(hist) >= 1 => hist[1].probes = Len(worker_hosts)
    /\ Len(hist) >= 2 =>
          IF hist[1].absent < hist[1].probes
          THEN hist[2].probes = 0
          ELSE hist[2].probes = Len(worker_hosts)

C4_Witness ==
    /\ Len(hist) >= 2
    /\ hist[1].probes = 2
    /\ hist[1].absent = 1
    /\ hist[2].probes = 0
    /\ Done(1)
    /\ req[1].lat = worker_latencies

WouldReturn(k, r) ==
    IF k = N_direct THEN {MANAGER_HOST}
    ELSE IF k = N_random
    THEN IF r.qtype = "read" /\ worker_hosts # <<>>
         THEN Hosts(worker_hosts) ELSE {MANAGER_HOST}
    ELSE IF r.qtype = "read" /\ worker_hosts # <<>> /\ r.lat # <<>>
         THEN {r.lat[j].host : j \in
                 {j \in 1..Len(r.lat) : \A l \in 1..Len(r.lat) : r.lat[j].ms <= r.lat[l].ms}}
         ELSE {MANAGER_HOST}

\* C6: Router.choose_target with a name that is none of direct, random, custom
\* (absent, or in another letter case) raises nothing and returns what the
\* strategy named by PROXY_STRATEGY returns for the same query.
C6_UnknownNameUsesDefault ==
    \A c \in Clients :
        (Done(c) /\ req[c].api = "router" /\ Unregistered(req[c].sname)
            /\ DEFAULT_STRATEGY \in Registered)
        => /\ req[c].err = "none"
           /\ req[c].strat = DEFAULT_STRATEGY
           /\ req[c].target \in WouldReturn(DEFAULT_STRATEGY, req[c])

C6_Witness ==
    /\ Done(1)
    /\ req[1].api = "router"
    /\ req[1].sname = Name(N_RANDOM_upper)
    /\ DEFAULT_STRATEGY = N_custom
    /\ req[1].query = Q_show
    /\ req[1].target = "w2"


\* the first whitespace-delimited word of q, lower-cased, is one of select,
\* show, describe, explain
FirstWordIsReadWord(q) ==
    \E a \in 1..Len(q), b \in 1..Len(q) :
        /\ a <= b
        /\ \A k \in 1..(a - 1) : IsSpace(q[k])
        /\ \A k \in a..b : ~IsSpace(q[k])
        /\ b = Len(q) \/ IsSpace(q[b + 1])
        /\ \E w \in {K_select, K_show, K_describe, K_explain} :
              /\ Len(w) = b - a + 1
              /\ \A k \in 1..Len(w) : LowerChar(q[a + k - 1]) = w[k]

\* C7: classify_query returns read exactly when the first whitespace-
\* delimited word of the query, lower-cased, is select, show, describe or
\* explain; every other query, the empty and the whitespace-only one
\* included, is a write; the Router's state is not touched.
C7_ClassifyByFirstWord ==
    cq.result \notin {"idle", "none"} =>
        /\ cq.result = IF FirstWordIsReadWord(cq.query) THEN "read" ELSE "write"
        /\ worker_latencies = <<>>
        /\ \A c \in Clients : req[c] = Idle

C7_Witness ==
    /\ cq.query = <<"\t", "\n", "E", "X", "P", "L", "A", "I", "N", "\t", "x", " ">>
    /\ cq.result = "read"

\* the values a random-strategy read can return when called in this state
RandomReadResults == RandomChoiceStrategy("read", MANAGER_HOST, worker_hosts)

\* C8: a random-strategy read with workers returns a worker and never the
\* manager; in every state, whatever earlier calls returned, each worker is
\* among the values a call can return; with no workers a read returns the
\* manager.
C8_RandomPicksAnyWorker ==
    \A c \in Clients :
        /\ (RouterDone(c, N_random) /\ req[c].qtype = "read")
              => /\ req[c].err = "none"
                 /\ IF worker_hosts # <<>>
                    THEN /\ req[c].target \in Hosts(worker_hosts)
                         /\ req[c].target # MANAGER_HOST
                    ELSE req[c].target = MANAGER_HOST
        /\ \A w \in Hosts(worker_hosts) : w \in RandomReadResults

C8_Witness ==
    /\ RouterDone(1, N_random)
    /\ req[1].qtype = "read"
    /\ Len(worker_hosts) = 2
    /\ req[1].target = "w2"
    /\ Len(hist) >= 1

\* C9: the direct strategy returns the manager for every query kind, worker
\* list and routing state, in DirectStrategy and in the direct branch of the
\* handler's host selection.
C9_DirectIsManager ==
    \A c \in Clients :
        (Done(c) /\ req[c].err = "none"
            /\ \/ req[c].api = "router" /\ req[c].strat = N_direct
               \/ req[c].api = "app" /\ app_strategy(req[c].sname) = N_direct)
        => req[c].target = MANAGER_HOST

C9_Witness ==
    /\ RouterDone(1, N_direct)
    /\ req[1].qtype = "read"
    /\ Len(worker_hosts) = 2
    /\ Len(worker_latencies) = 2
    /\ req[1].target = MANAGER_HOST

\* client c is in a probing pass it began on an empty cache
InPass(c) == req[c].pc \in {"probe", "store"}

Settled == worker_latencies # <<>> /\ \A c \in Clients : ~InPass(c)

LatencyReadDone(c) ==
    RouterDone(c, N_custom) /\ req[c].qtype = "read" /\ req[c].err = "none"

\* C11: under any interleaving of concurrent latency-strategy reads, every
\* request returns the manager or a worker of the list for which a probe
\* succeeded (an entry of the latencies it decided from, which hold one entry
\* per successful probe of a pass), worker_latencies never holds a host
\* outside the worker list, and every change of worker_latencies replaces it
\* by the whole result of the pass of one request that probed every worker
\* (last write wins): never a mixture of two passes.
C11_WholePassesOnly ==
    /\ [](\A c \in Clients :
            /\ LatencyReadDone(c) =>
                  \/ req[c].target = MANAGER_HOST
                  \/ /\ req[c].target \in Hosts(worker_hosts)
                     /\ req[c].target \in DictKeys(req[c].lat)
            /\ (InPass(c) \/ (LatencyReadDone(c) /\ req[c].probes > 0)) =>
                  /\ Len(req[c].lat) = req[c].probes - req[c].absent
                  /\ DictKeys(req[c].lat) \subseteq Hosts(worker_hosts)
            /\ (LatencyReadDone(c) /\ req[c].probes = req[c].absent
                                   /\ req[c].probes > 0) =>
                  req[c].target = MANAGER_HOST)
    /\ [](DictKeys(worker_latencies) \subseteq Hosts(worker_hosts))
    /\ [][worker_latencies' # worker_latencies =>
            \E c \in Clients :
                /\ req[c].pc = "store" /\ req'[c].pc = "done"
                /\ req[c].probes = Len(worker_hosts)
                /\ Len(req[c].lat) = req[c].probes - req[c].absent
                /\ worker_latencies' = req[c].lat]_vars

\* two requests started on the empty cache, each probed both workers, their
\* passes gave different results and the cache holds the one stored last
C11_Witness ==
    /\ LatencyReadDone(1) /\ LatencyReadDone(2)
    /\ req[1].probes = 2 /\ req[2].probes = 2
    /\ req[1].absent = 1 /\ req[2].absent = 0
    /\ req[1].lat # req[2].lat
    /\ worker_latencies = req[1].lat
    /\ req[1].target \in Hosts(worker_hosts)

\* an executor call has ended
ExDone(kind) == ex.kind = kind /\ ex.pc = "done"

\* the driver calls of the call in progress, by position in the log
LogIdx == 1..Len(ex.log)

Called(op) == \E k \in LogIdx : ex.log[k].op = op

Succeeded(op) == \E k \in LogIdx : ex.log[k].op = op /\ ex.log[k].out = "ok"

FailedAt(op) == \E k \in LogIdx : ex.log[k].op = op /\ ex.log[k].out # "ok"

\* C12: when an executor call has ended, on every exit path (success, driver
\* error or unexpected exception at any driver call, close included), no
\* connection and no cursor the call opened is left open, for
\* db.execute_query and for the POST /sql handler.  (Left open is taken in
\* the weakest sense: opened and never handed to close().)
C12_NothingLeftOpen ==
    (ExDone("db") \/ ExDone("app")) =>
        ex.conn # "open" /\ ex.cursor # "open"

\* C13: execute_query never raises to its caller, and a failure to connect,
\* execute, fetch or commit yields the error pair (no rows, no count) whose
\* message names the target host and the underlying error.  (Stated for the
\* calls in which every failure is a mysql.connector.Error.)
C13_NeverRaises ==
    (ExDone("db") /\ \A k \in LogIdx : ex.log[k].out \in {"ok", "Error"}) =>
        /\ ex.resp.how = "return"
        /\ \A op \in {"connect", "execute", "fetchall", "commit"} :
              FailedAt(op) =>
                  /\ ex.resp.result = "None"
                  /\ ex.resp.msg = "error"
                  /\ ex.resp.msg_host = ex.host
                  /\ ex.resp.msg_err = op

\* the position of the commit in the log, 0 when none was issued
CommitIdx ==
    IF Called("commit")
    THEN CHOOSE k \in LogIdx : ex.log[k].op = "commit"
    ELSE 0

\* C14: in both executors a commit is issued only after the statement
\* executed, before any close and never on the read path (no fetchall before
\* or after it); when connecting or executing fails no commit is issued; a
\* write whose execute returned is committed before the finally block, and
\* success of a write (the affected-row count) is reported only after the
\* commit returned.
C14_CommitInOrder ==
    /\ Called("commit") =>
          /\ \E j \in 1..(CommitIdx - 1) :
                ex.log[j].op = "execute" /\ ex.log[j].out = "ok"
          /\ \A j \in 1..(CommitIdx - 1) :
                ex.log[j].op \notin {"cursor.close", "conn.close", "commit"}
          /\ ~Called("fetchall")
    /\ (FailedAt("connect") \/ FailedAt("execute")) => ~Called("commit")
    /\ Called("fetchall") => ~Called("commit")
    /\ (Succeeded("execute") /\ ex.pc \in {"close_cursor", "close_conn", "done"})
          => (Called("commit") \/ Called("fetchall"))
    /\ (ex.resp.how = "return" /\ ex.resp.result = "count")
          => Succeeded("commit")

\* a write went through the handler: executed, committed, both objects
\* closed, 200 with the affected-row count
C14_Witness ==
    /\ ExDone("app")
    /\ [k \in LogIdx |-> ex.log[k].op] =
          <<"connect", "cursor", "execute", "commit", "cursor.close",
            "conn.close">>
    /\ \A k \in LogIdx : ex.log[k].out = "ok"
    /\ ex.resp.status = 200 /\ ex.resp.result = "count"

\* the body carries no query, or an empty one
NoQueryGiven == ~ex.query.given \/ ex.query.v = <<>>

\* C18: a POST /sql whose body has no query or an empty query is answered
\* 400 at once: no target host is chosen, no driver call is made (no
\* connection, no cursor), no probe is issued and the routing state
\* (worker list, default strategy, latency cache, calls in progress) is left
\* as it was.
C18_MissingQueryIs400 ==
    /\ []((ex.kind = "app" /\ NoQueryGiven) =>
            /\ ex.pc = "done"
            /\ ex.resp.how = "return" /\ ex.resp.status = 400
            /\ ex.host = "none"
            /\ ex.log = <<>> /\ ex.conn = "none" /\ ex.cursor = "none")
    /\ [][(ex'.kind = "app" /\ (~ex'.query.given \/ ex'.query.v = <<>>)) =>
            UNCHANGED <<worker_hosts, DEFAULT_STRATEGY, worker_latencies,
                        req, hist>>]_vars

\* a body with an empty query and a strategy name was answered 400
C18_Witness ==
    /\ ExDone("app")
    /\ ex.query = Name(<<>>) /\ ex.sname = Name(N_custom)
    /\ ex.resp.status = 400 /\ ex.resp.keys = {"error"}

\* the host set of the configuration
ConfiguredHosts == {MANAGER_HOST} \cup Hosts(worker_hosts)

\* C20: every 200 answer of POST /sql carries target_host, strategy, message
\* and result; the target host is the manager or a configured worker and the
\* host the query was executed on; result is a row sequence for a read
\* (first word select, show, describe or explain) and an affected-row count
\* for a write.
C20_ResponseShape ==
    (ExDone("app") /\ ex.resp.how = "return" /\ ex.resp.status = 200) =>
        /\ ex.resp.keys = {"target_host", "strategy", "message", "result"}
        /\ ex.host \in ConfiguredHosts
        /\ ex.resp.result =
              IF classify_query(ex.query.v) = "read" THEN "rows" ELSE "count"

FoLogIdx == 1..Len(fo.log)

\* the k-th driver call of the request was `op` on the manager, made by
\* route_sql itself, and it returned
ManagerDid(k, op) ==
    /\ fo.log[k].ph = "main" /\ fo.log[k].host = MANAGER
    /\ fo.log[k].op = op /\ fo.log[k].out = "ok"

\* route_sql's own connect, execute or commit raised
ManagerWriteFailed ==
    \E k \in FoLogIdx :
        /\ fo.log[k].ph = "main" /\ fo.log[k].out # "ok"
        /\ fo.log[k].op \in {"connect", "execute", "commit"}

Replicating(k) == fo.log[k].ph = "repl"

\* C15: in the fan-out Proxy a driver call of the replication reaches a
\* worker only for a write and only after the manager executed and committed
\* it; a write is sent by route_sql itself to the manager only; and when the
\* manager's connect, execute or commit fails no worker receives anything,
\* no replication result exists and the request is answered 500 with an
\* error.
C15_ReplicateAfterCommit ==
    /\ \A k \in FoLogIdx :
          Replicating(k) =>
              /\ fo.is_write
              /\ \E i, j \in 1..(k - 1) :
                    i < j /\ ManagerDid(i, "execute") /\ ManagerDid(j, "commit")
    /\ fo.is_write =>
          \A k \in FoLogIdx : ~Replicating(k) => fo.log[k].host = MANAGER
    /\ (fo.is_write /\ ManagerWriteFailed) =>
          /\ \A k \in FoLogIdx : ~Replicating(k)
          /\ fo.results = <<>>
          /\ fo.resp.how = "return" /\ fo.resp.status = 500
          /\ fo.resp.keys = {"error"}

\* a write was committed on the manager and then replicated to both workers
C15_Witness ==
    /\ fo.pc = "done" /\ fo.is_write
    /\ \E k \in FoLogIdx : Replicating(k) /\ fo.log[k].host = WORKERS[2]
                              /\ fo.log[k].op = "commit"
    /\ fo.resp.status = 200

\* the request is a write that the manager executed and committed and whose
\* connection route_sql closed, and the try block is over
ReplicationOver ==
    /\ fo.is_write
    /\ fo.pc \in {"fin_cur", "fin_conn", "done"}
    /\ \E k \in FoLogIdx : ManagerDid(k, "commit")
    /\ \E k \in FoLogIdx : ManagerDid(k, "conn.close")

\* the replication calls made to worker i that returned
ReplicaOks(i) ==
    {k \in FoLogIdx : /\ Replicating(k) /\ fo.log[k].host = WORKERS[i]
                      /\ fo.log[k].out = "ok"}

\* C16: replication attempts every worker independently: the result list
\* grows in worker order, and once the replication of a committed write is
\* over it holds exactly one {host, status} entry per configured worker,
\* every worker was connected to whatever happened on the workers before
\* it, a worker's status is OK exactly when all its statements returned, and
\* the request is answered 200 with status OK and the replication list
\* whatever number of workers failed.
C16_EveryWorkerAttempted ==
    /\ Len(fo.results) <= Len(WORKERS)
    /\ \A i \in 1..Len(fo.results) : fo.results[i].host = WORKERS[i]
    /\ fo.pc = "replicate" => Len(fo.results) = fo.w - 1
    /\ ReplicationOver =>
          /\ Len(fo.results) = Len(WORKERS)
          /\ \A i \in 1..Len(WORKERS) :
                /\ \E k \in FoLogIdx :
                      /\ Replicating(k) /\ fo.log[k].host = WORKERS[i]
                      /\ fo.log[k].op = "connect"
                /\ fo.results[i].status = "OK"
                      <=> Cardinality(ReplicaOks(i)) = Len(ReplicaOps)
          /\ fo.resp.how = "return" /\ fo.resp.status = 200
          /\ fo.resp.result = "OK"
          /\ fo.resp.keys = {"status", "replication"}

\* the first worker failed, the second was still written to, and the
\* request was answered 200
C16_Witness ==
    /\ fo.pc = "done" /\ ReplicationOver
    /\ fo.results = <<[host |-> WORKERS[1], status |-> "ERROR"],
                      [host |-> WORKERS[2], status |-> "OK"]>>
    /\ fo.resp.status = 200

\* the body names no strategy, or a name that is none of direct, random,
\* custom in any letter case
NoKnownStrategy(s) == ~s.given \/ lower(s.v) \notin Registered

\* C17: when the body of POST /sql gives no strategy, or a name that is none
\* of direct, random, custom, the handler's host selection returns a host
\* that the selection made under the name configured as PROXY_STRATEGY
\* returns for the same query, for PROXY_STRATEGY direct, random and custom.
C17_HandlerUsesDefault ==
    \A c \in Clients :
        (Done(c) /\ req[c].api = "app" /\ NoKnownStrategy(req[c].sname)
            /\ DEFAULT_STRATEGY \in Registered)
        => req[c].target \in choose_host(Name(DEFAULT_STRATEGY), req[c].query,
                                         MANAGER_HOST, worker_hosts)

\* every variable the configuration requires, WORKER_HOSTS apart, is set to
\* a usable value
OtherVariablesFine ==
    /\ ~must_get_raises(cfg.env.MANAGER_HOST)
    /\ ~must_get_raises(cfg.env.DB_USER)
    /\ ~must_get_raises(cfg.env.DB_PASSWORD)
    /\ ~int_raises(getenv(cfg.env.DB_PORT, D_3306))

\* C19: with WORKER_HOSTS set to the empty string (and the other variables
\* fine) the configuration loads without error, the worker list is empty,
\* and the routing call made with it returns the manager whatever the
\* strategy and the query.
C19_EmptyWorkerListLoads ==
    (cfg.pc # "idle" /\ cfg.env.WORKER_HOSTS = Name(<<>>) /\ OtherVariablesFine)
        => /\ cfg.pc \in {"loaded", "routed"}
           /\ cfg.err = "none"
           /\ cfg.WORKER_HOSTS = <<>>
           /\ cfg.pc = "routed" => cfg.target = cfg.MANAGER_HOST

\* the Gatekeeper has posted the request in progress to the Proxy
Forwarded == \E k \in 1..Len(gk.steps) : gk.steps[k] = "post"

\* the X-API-TOKEN header is missing or differs from the configured token
BadToken == ~gk.token.given \/ gk.token.v # API_TOKEN

\* C21: the Gatekeeper posts to the Proxy only after the token check, the
\* non-empty-query check and validate_sql, made in that order and all
\* passed; a request whose token is missing or differs from the configured
\* one is answered 401 right after the token check, whatever its body, and
\* nothing is posted.
C21_ChecksBeforeForward ==
    /\ Forwarded =>
          /\ SubSeq(gk.steps, 1, 4) = <<"auth", "query", "validate", "post">>
          /\ ~BadToken
          /\ gk.query.given /\ gk.query.v # <<>>
          /\ validate_sql(gk.query.v).ok
    /\ (BadToken /\ gk.pc \notin {"idle", "auth"}) =>
          /\ gk.pc = "done"
          /\ gk.steps = <<"auth">>
          /\ gk.resp.how = "return" /\ gk.resp.status = 401
          /\ ~gk.payload.sent

\* a request with a wrong token and a valid query was answered 401
C21_Witness ==
    /\ gk.pc = "done" /\ gk.token = Name(<<"S","3">>)
    /\ gk.query = Name(Q_select)
    /\ gk.resp.status = 401

\* the keywords of the denylist
DenyWords == {K_drop, <<"t","r","u","n","c","a","t","e">>, K_alter, <<"s","h","u","t","d","o","w","n">>, <<"g","r","a","n","t">>, <<"r","e","v","o","k","e">>}

\* C22: no query that contains one of the keywords drop, truncate, alter,
\* shutdown, grant, revoke in any letter case is accepted by validate_sql
\* and posted to the Proxy.
C22_NoDeniedKeywordForwarded ==
    Forwarded => \A kw \in DenyWords : ~contains(lower(gk.query.v), kw)

RECURSIVE Unquoted(_, _)
\* the text of a statement outside its '...' literals
Unquoted(s, in_literal) ==
    IF s = <<>> THEN <<>>
    ELSE IF Head(s) = "'" THEN Unquoted(Tail(s), ~in_literal)
    ELSE IF in_literal THEN Unquoted(Tail(s), in_literal)
    ELSE <<Head(s)>> \o Unquoted(Tail(s), in_literal)

\* the statement has a WHERE clause: the word where outside any literal
HasWhereClause(q) ==
    LET u == lower(Unquoted(q, FALSE))
    IN  \E i \in 1..Len(u) :
            /\ i + 4 <= Len(u) /\ SubSeq(u, i, i + 4) = <<"w","h","e","r","e">>
            /\ i > 1 => IsSpace(u[i - 1])
            /\ i + 4 < Len(u) => IsSpace(u[i + 5])

IsUpdateOrDelete(q) == split_first(lower(strip(q))) \in {K_update, K_delete}

\* C23: no UPDATE or DELETE statement without a WHERE clause is accepted by
\* validate_sql and posted to the Proxy.
C23_NoUpdateWithoutWhereForwarded ==
    (Forwarded /\ IsUpdateOrDelete(gk.query.v)) => HasWhereClause(gk.query.v)

\* C29: for a forwarded request the status returned to the client is the
\* status of the Proxy's response; when the post raises (connection error,
\* timeout) the handler returns 502 and raises nothing; the posted body
\* holds the client's query unchanged, and a strategy field only when the
\* client supplied one, then with the client's value.
C29_StatusPassedThrough ==
    /\ gk.payload.sent =>
          /\ gk.payload.query = gk.query.v
          /\ gk.payload.strategy.given =>
                gk.strategy.given /\ gk.payload.strategy = gk.strategy
    /\ (Forwarded /\ gk.pc = "done") =>
          /\ gk.resp.how = "return"
          /\ gk.proxy.kind \in {"json", "text"} =>
                gk.resp.status = gk.proxy.status
          /\ gk.proxy.kind \in {"ConnectionError", "Timeout"} =>
                gk.resp.status = 502

\* the Proxy answered 403 with a body that is no JSON, and a timeout was
\* answered 502: two witnesses in one would need two requests, so the
\* first is taken
C29_Witness ==
    /\ gk.pc = "done" /\ Forwarded
    /\ gk.proxy = [kind |-> "text", status |-> 403]
    /\ gk.resp.status = 403
    /\ gk.strategy = Name(<<>>) /\ ~gk.payload.strategy.given

\* the call of client c is a latency-strategy read on a non-empty worker list
LatencyRead(c) ==
    /\ req[c].api = "router" /\ req[c].strat = N_custom
    /\ req[c].qtype = "read" /\ worker_hosts # <<>>

\* C24: only a read under the latency strategy with a non-empty worker list
\* changes worker_latencies or probes a host; a Direct call, a Random call,
\* a latency-strategy write and a latency-strategy call with no workers
\* leave worker_latencies as it was and probe nothing; no call changes the
\* worker list (the manager host is the constant MANAGER_HOST).
C24_OnlyLatencyReadsTouchState ==
    /\ [](\A c \in Clients :
            (req[c].pc # "idle" /\ ~LatencyRead(c)) => req[c].probes = 0)
    /\ [][/\ worker_hosts' = worker_hosts
          /\ worker_latencies' # worker_latencies => \E c \in Clients : LatencyRead(c)
          /\ \A c \in Clients :
                req'[c].probes > req[c].probes => LatencyRead(c)]_vars

\* a write under the latency strategy has returned, with workers configured
\* and latencies in the cache, without probing
C24_Witness ==
    /\ req[1].pc = "done" /\ req[1].api = "router"
    /\ req[1].strat = N_custom /\ req[1].qtype = "write"
    /\ worker_hosts # <<>> /\ worker_latencies # <<>>
    /\ req[1].probes = 0 /\ req[1].target = MANAGER_HOST

\* C27: Router.get_strategy called with a registered name returns that
\* strategy and raises nothing, whatever PROXY_STRATEGY holds, a name that
\* is not registered included.
C27_RegisteredNameNeverRaises ==
    \A c \in Clients :
        (req[c].pc = "done" /\ req[c].api = "router"
            /\ req[c].sname.given /\ req[c].sname.v \in Registered) =>
        (req[c].err = "none" /\ req[c].strat = req[c].sname.v)

\* C26: the read/write decision that picks the host and the one that picks
\* the execution path agree: db.execute_query never takes a query that
\* classify_query calls a write down the fetch path (rows fetched, nothing
\* committed), and the POST /sql handler never takes a query its host
\* selection routed as a read down the commit path.
C26_RoutingAndExecutionAgree ==
    /\ (ex.kind = "db" /\ ex.query.given
            /\ classify_query(ex.query.v) = "write") =>
          ~(Called("fetchall") /\ ~Called("commit"))
    /\ (ex.kind = "app" /\ ex.query.given /\ app_is_read(ex.query.v)) =>
          ~Called("commit")

\* choose_custom_worker was called for the request and the measurement of
\* every worker raised
AllMeasurementsFailed ==
    /\ fo.lats # <<>>
    /\ \A i \in 1..Len(fo.lats) : fo.lats[i] = Inf

\* C25: a read under the customized strategy for which the latency
\* measurement of every worker fails is sent to the manager, not to a
\* worker.
C25_AllFailedGoesToManager ==
    (fo.pc \notin {"idle"} /\ AllMeasurementsFailed) => fo.host = MANAGER

\* the replication loop of the request is over
ReplicaLoopOver == fo.replicated /\ fo.pc # "replicate"

\* worker i's replication statement op was called / returned
ReplicaCalled(i, op) ==
    \E k \in 1..Len(fo.log) :
        /\ fo.log[k].ph = "repl" /\ fo.log[k].host = WORKERS[i]
        /\ fo.log[k].op = op

ReplicaReturned(i, op) ==
    \E k \in 1..Len(fo.log) :
        /\ fo.log[k].ph = "repl" /\ fo.log[k].host = WORKERS[i]
        /\ fo.log[k].op = op /\ fo.log[k].out = "ok"

\* C28: when replicate_write_to_workers has returned, every connection and
\* every cursor it opened to a worker has been closed, also for a worker on
\* which execute or commit failed.
C28_ReplicaConnectionsClosed ==
    ReplicaLoopOver =>
        \A i \in 1..Len(WORKERS) :
            /\ ReplicaReturned(i, "connect") => ReplicaReturned(i, "conn.close")
            /\ ReplicaReturned(i, "cursor") => ReplicaReturned(i, "cur.close")

\* the instances main has launched in this run
Launched == {fa.launched[i] : i \in 1..Len(fa.launched)}

\* C30: whenever main has ended without --no-cleanup, after finishing or
\* after stopping at a step that failed (launch error, waiter error,
\* missing public IP, health-check timeout), termination has been
\* requested for every instance main launched; with --no-cleanup no
\* termination is requested.
C30_CleanupOnEveryExit ==
    /\ (fa.pc = "done" /\ ~fa.no_cleanup) => Launched \subseteq fa.terminated
    /\ fa.no_cleanup => fa.terminated = {}

=============================================================================
